---- MODULE Spec2Model ----
(***************************************************************************)
(* Model of the time-convert parsing core: the zone resolver and instant   *)
(* converter of src/src/lib/timezone.ts and the parser of                  *)
(* src/unnamed/part_000 (imported by the sources as lib/parser).           *)
(*                                                                         *)
(* Text is a sequence of one-character strings. The three CJK characters   *)
(* the parser knows are written "u5E74" (year), "u6708" (month) and        *)
(* "u65E5" (day). An instant is [k, d, ms]: k = "date" with d days since   *)
(* the epoch and ms milliseconds into that day, k = "nan" for an Invalid   *)
(* Date, k = "null" for a parser's decline.                                *)
(***************************************************************************)
EXTENDS Integers, Sequences, FiniteSets, TLC

VARIABLES pc, rawInput, defaultSourceZone, input, sourceZone, state, idx,
          trace, result, clock, nativeTimestamp,
          fnArgs, fnOut, partsFormatterCache, zoneNameFormatterCache

vars == <<pc, rawInput, defaultSourceZone, input, sourceZone, state, idx,
          trace, result, clock, nativeTimestamp, fnArgs, fnOut,
          partsFormatterCache, zoneNameFormatterCache>>

(***************************************************************************)
(* Characters and text                                                     *)
(***************************************************************************)
DigitChars == {"0", "1", "2", "3", "4", "5", "6", "7", "8", "9"}

LowerChars == {"a", "b", "c", "d", "e", "f", "g", "h", "i", "j", "k", "l", "m",
               "n", "o", "p", "q", "r", "s", "t", "u", "v", "w", "x", "y", "z"}

UpperChars == {"A", "B", "C", "D", "E", "F", "G", "H", "I", "J", "K", "L", "M",
               "N", "O", "P", "Q", "R", "S", "T", "U", "V", "W", "X", "Y", "Z"}

LetterChars == LowerChars \cup UpperChars

CjkChars == {"u5E74", "u6708", "u65E5"}

SpaceChars == {" "}

\* \w of a JavaScript regular expression
WordChars == LetterChars \cup DigitChars \cup {"_"}

ToLowerChar(c) ==
    CASE c = "A" -> "a" [] c = "B" -> "b" [] c = "C" -> "c" [] c = "D" -> "d"
      [] c = "E" -> "e" [] c = "F" -> "f" [] c = "G" -> "g" [] c = "H" -> "h"
      [] c = "I" -> "i" [] c = "J" -> "j" [] c = "K" -> "k" [] c = "L" -> "l"
      [] c = "M" -> "m" [] c = "N" -> "n" [] c = "O" -> "o" [] c = "P" -> "p"
      [] c = "Q" -> "q" [] c = "R" -> "r" [] c = "S" -> "s" [] c = "T" -> "t"
      [] c = "U" -> "u" [] c = "V" -> "v" [] c = "W" -> "w" [] c = "X" -> "x"
      [] c = "Y" -> "y" [] c = "Z" -> "z" [] OTHER -> c

ToLower(s) == [i \in 1..Len(s) |-> ToLowerChar(s[i])]

DigitVal(c) ==
    CASE c = "0" -> 0 [] c = "1" -> 1 [] c = "2" -> 2 [] c = "3" -> 3
      [] c = "4" -> 4 [] c = "5" -> 5 [] c = "6" -> 6 [] c = "7" -> 7
      [] c = "8" -> 8 [] c = "9" -> 9

DigitChar(n) ==
    CASE n = 0 -> "0" [] n = 1 -> "1" [] n = 2 -> "2" [] n = 3 -> "3"
      [] n = 4 -> "4" [] n = 5 -> "5" [] n = 6 -> "6" [] n = 7 -> "7"
      [] n = 8 -> "8" [] n = 9 -> "9"

AllDigits(s) == \A i \in 1..Len(s) : s[i] \in DigitChars

\* String.prototype.trim
RECURSIVE TrimLeft(_)
TrimLeft(s) ==
    IF s # <<>> /\ Head(s) \in SpaceChars THEN TrimLeft(Tail(s)) ELSE s

RECURSIVE TrimRight(_)
TrimRight(s) ==
    IF s # <<>> /\ s[Len(s)] \in SpaceChars
    THEN TrimRight(SubSeq(s, 1, Len(s) - 1))
    ELSE s

Trim(s) == TrimRight(TrimLeft(s))

\* String.prototype.lastIndexOf, 1-based; 0 when the character is absent
LastIndexOf(s, c) ==
    LET at == {i \in 1..Len(s) : s[i] = c}
    IN  IF at = {} THEN 0 ELSE CHOOSE i \in at : \A j \in at : j <= i

\* Number(text) of a short run of decimal digits
RECURSIVE NumberOf(_)
NumberOf(s) ==
    IF s = <<>> THEN 0
    ELSE 10 * NumberOf(SubSeq(s, 1, Len(s) - 1)) + DigitVal(s[Len(s)])

\* Number.prototype.toString of a non-negative integer
RECURSIVE NumToText(_)
NumToText(n) ==
    IF n < 10 THEN <<DigitChar(n)>>
    ELSE NumToText(n \div 10) \o <<DigitChar(n % 10)>>

\* value.toString().padStart(width, "0")
RECURSIVE padStart(_, _)
padStart(s, width) == IF Len(s) >= width THEN s ELSE padStart(<<"0">> \o s, width)

pad(value) == padStart(NumToText(value), 2)

(***************************************************************************)
(* The engine's calendar: Date.UTC, the getUTC* accessors and TimeClip     *)
(***************************************************************************)
MsPerDay == 86400000

millisecondsInMinute == 60000

minutesInHour == 60

\* the largest day number of a valid Date: 8.64e15 ms = 100,000,000 days
MaxDateDays == 100000000

Null == [k |-> "null", d |-> 0, ms |-> 0]

NaNDate == [k |-> "nan", d |-> 0, ms |-> 0]

IsDate(x) == x.k = "date"

\* new Date(days * MsPerDay + ms): the time value is normalised and clipped
MkDate(days, ms) ==
    LET d2 == days + (ms \div MsPerDay)
        m2 == ms % MsPerDay
    IN  IF d2 < -MaxDateDays \/ d2 > MaxDateDays \/ (d2 = MaxDateDays /\ m2 > 0)
        THEN NaNDate
        ELSE [k |-> "date", d |-> d2, ms |-> m2]

\* new Date(date.getTime() + deltaMs)
ShiftMs(date, deltaMs) ==
    IF date.k # "date" THEN NaNDate ELSE MkDate(date.d, date.ms + deltaMs)

\* days from 1970-01-01 to the proleptic Gregorian date (y, m, d); a day past
\* the month's end runs on into the next month, as Date.UTC normalises it
DaysFromCivil(y, m, d) ==
    LET OfEra(era, yoe, doy) ==
            era * 146097 + (yoe * 365 + yoe \div 4 - yoe \div 100 + doy) - 719468
        OfYear(yy, doy) == OfEra(yy \div 400, yy % 400, doy)
    IN  OfYear(IF m <= 2 THEN y - 1 ELSE y, (153 * ((m + 9) % 12) + 2) \div 5 + d - 1)

\* getUTCFullYear / getUTCMonth()+1 / getUTCDate of day number z
CivilFromDays(z) ==
    LET Fields(era, yoe, doy, mp) ==
            [year  |-> yoe + era * 400 + (IF mp < 10 THEN 0 ELSE 1),
             month |-> IF mp < 10 THEN mp + 3 ELSE mp - 9,
             day   |-> doy - (153 * mp + 2) \div 5 + 1]
        OfDay(era, yoe, doy) == Fields(era, yoe, doy, (5 * doy + 2) \div 153)
        OfYear(era, doe, yoe) ==
            OfDay(era, yoe, doe - (365 * yoe + yoe \div 4 - yoe \div 100))
        OfEra(era, doe) ==
            OfYear(era, doe,
                   (doe - doe \div 1460 + doe \div 36524 - doe \div 146096) \div 365)
    IN  OfEra((z + 719468) \div 146097, (z + 719468) % 146097)

\* Date.UTC(year, month - 1, day, hour, minute, second, millisecond): a year
\* of 0..99 means 1900 + year
DateUTC(year, month, day, hour, minute, second, millisecond) ==
    LET yr == IF 0 <= year /\ year <= 99 THEN 1900 + year ELSE year
    IN  MkDate(DaysFromCivil(yr, month, day),
               ((hour * 60 + minute) * 60 + second) * 1000 + millisecond)

\* the UTC fields of an instant, as formatInstantForZone reads them
UtcParts(date) ==
    LET Parts(c, secs) ==
            [year |-> c.year, month |-> c.month, day |-> c.day,
             hour |-> secs \div 3600, minute |-> (secs \div 60) % 60, second |-> secs % 60]
    IN  Parts(CivilFromDays(date.d), date.ms \div 1000)

(***************************************************************************)
(* The timezone database behind Intl.DateTimeFormat                        *)
(***************************************************************************)
\* "Asia/Tokyo"
ZoneTokyo == <<"A", "s", "i", "a", "/", "T", "o", "k", "y", "o">>

\* "US/Pacific"
ZonePacific == <<"U", "S", "/", "P", "a", "c", "i", "f", "i", "c">>

\* "Etc/UTC"
ZoneEtcUtc == <<"E", "t", "c", "/", "U", "T", "C">>

\* the identifiers the database knows; Intl matches them case-insensitively
IanaNames == {ZoneTokyo, ZonePacific, ZoneEtcUtc}

\* Intl.DateTimeFormat().resolvedOptions().timeZone of the process
localTimeZone == ZonePacific

\* day number of the n-th Sunday of month m of year y (day 0 is a Thursday)
NthSunday(y, m, n) ==
    LET From(first) == first + ((7 - ((first + 4) % 7)) % 7) + 7 * (n - 1)
    IN  From(DaysFromCivil(y, m, 1))

\* the zone's UTC offset in minutes at an instant. US/Pacific follows the
\* United States rule: daylight time from the second Sunday of March,
\* 10:00 UTC, to the first Sunday of November, 09:00 UTC.
TzOffsetMinutes(date, timeZone) ==
    LET Pacific(start, end) ==
            IF /\ (date.d > start \/ (date.d = start /\ date.ms >= 10 * 3600000))
               /\ (date.d < end \/ (date.d = end /\ date.ms < 9 * 3600000))
            THEN -420 ELSE -480
        InYear(y) == Pacific(NthSunday(y, 3, 2), NthSunday(y, 11, 1))
        Named(z) ==
            IF z = ToLower(ZoneTokyo) THEN 540
            ELSE IF z = ToLower(ZonePacific) THEN InYear(CivilFromDays(date.d).year)
            ELSE 0
    IN  Named(ToLower(timeZone))

\* formatterForParts(timeZone).formatToParts(date), read into DateParts
toDateParts(date, timeZone) ==
    UtcParts(ShiftMs(date, TzOffsetMinutes(date, timeZone) * millisecondsInMinute))

\* the short zone name Intl prints for an instant
zoneName(date, timeZone) ==
    LET Named(z) ==
            IF z = ToLower(ZoneTokyo) THEN <<"G", "M", "T", "+", "9">>
            ELSE IF z = ToLower(ZonePacific) THEN
                IF TzOffsetMinutes(date, timeZone) = -420
                THEN <<"P", "D", "T">> ELSE <<"P", "S", "T">>
            ELSE <<"U", "T", "C">>
    IN  Named(ToLower(timeZone))

\* asUtc - date.getTime(): whole seconds of the zone's offset, less the
\* instant's own milliseconds, which the parts formatter drops
getTimeZoneOffsetMilliseconds(date, timeZone) ==
    TzOffsetMinutes(date, timeZone) * millisecondsInMinute - (date.ms % 1000)

(***************************************************************************)
(* Zone resolver (timezone.ts)                                             *)
(***************************************************************************)
FixedZone(offsetMinutes, label) ==
    [kind |-> "fixed", offsetMinutes |-> offsetMinutes, name |-> <<>>,
     label |-> label, hasLabel |-> TRUE]

IanaZone(name, label, hasLabel) ==
    [kind |-> "iana", offsetMinutes |-> 0, name |-> name,
     label |-> label, hasLabel |-> hasLabel]

NoZone == [kind |-> "none", offsetMinutes |-> 0, name |-> <<>>,
           label |-> <<>>, hasLabel |-> FALSE]

formatOffset(minutes) ==
    LET sign     == IF minutes >= 0 THEN "+" ELSE "-"
        absolute == IF minutes >= 0 THEN minutes ELSE -minutes
        hh       == absolute \div minutesInHour
        mm       == absolute % minutesInHour
    IN  <<sign>> \o pad(hh) \o <<":">> \o pad(mm)

formatDateString(parts, offsetMinutes, zoneToken) ==
    NumToText(parts.year) \o <<"-">> \o pad(parts.month) \o <<"-">> \o pad(parts.day)
      \o <<"T">> \o pad(parts.hour) \o <<":">> \o pad(parts.minute) \o <<":">>
      \o pad(parts.second) \o <<" ">> \o formatOffset(offsetMinutes) \o <<" ">> \o zoneToken

\* the tail (\d{1,2})(?::?(\d{2}))?$ of offsetPattern and bareOffsetPattern:
\* [ok, hours, minutes] with the groups as text; an absent minutes group is <<>>
MatchHoursMinutes(t) ==
    LET n     == Len(t)
        colon == LastIndexOf(t, ":")
        no    == [ok |-> FALSE, hours |-> <<>>, minutes |-> <<>>]
    IN  IF n = 0 THEN no
        ELSE IF AllDigits(t) THEN
            IF n <= 2 THEN [ok |-> TRUE, hours |-> t, minutes |-> <<>>]
            ELSE IF n <= 4
            THEN [ok |-> TRUE, hours |-> SubSeq(t, 1, n - 2), minutes |-> SubSeq(t, n - 1, n)]
            ELSE no
        ELSE IF /\ colon \in {2, 3}
                /\ n = colon + 2
                /\ AllDigits(SubSeq(t, 1, colon - 1))
                /\ AllDigits(SubSeq(t, colon + 1, n))
        THEN [ok |-> TRUE, hours |-> SubSeq(t, 1, colon - 1), minutes |-> SubSeq(t, colon + 1, n)]
        ELSE no

FixedFromGroups(direction, hours, minutes) ==
    LET offsetMinutes == (IF direction = "+" THEN 1 ELSE -1) * (hours * minutesInHour + minutes)
    IN  FixedZone(offsetMinutes, <<"U", "T", "C">> \o formatOffset(offsetMinutes))

\* a resolver that reads the sign of Etc/GMT+H as written, like the sign of UTC+H
parseFixedOffsetSignAsWritten(raw) ==
    LET n    == Len(raw)
        low  == ToLower(raw)
        body == IF n >= 7 /\ SubSeq(low, 1, 7) = <<"e", "t", "c", "/", "g", "m", "t">>
                THEN SubSeq(raw, 8, n)
                ELSE IF n >= 3 /\ SubSeq(low, 1, 3) \in {<<"u", "t", "c">>, <<"g", "m", "t">>}
                THEN TrimLeft(SubSeq(raw, 4, n))
                ELSE raw
        hm   == IF body # <<>> /\ Head(body) \in {"+", "-"}
                THEN MatchHoursMinutes(TrimLeft(Tail(body)))
                ELSE MatchHoursMinutes(<<>>)
    IN  IF ~hm.ok THEN NoZone
        ELSE IF NumberOf(hm.hours) > 23 \/ NumberOf(hm.minutes) > 59 THEN NoZone
        ELSE FixedFromGroups(Head(body), NumberOf(hm.hours), NumberOf(hm.minutes))

parseFixedOffset(raw) ==
    LET n   == Len(raw)
        etc == /\ n \in {9, 10}
               /\ ToLower(SubSeq(raw, 1, 7)) = <<"e", "t", "c", "/", "g", "m", "t">>
               /\ raw[8] \in {"+", "-"}
               /\ AllDigits(SubSeq(raw, 9, n))
        EtcZone(offsetMinutes) ==
            FixedZone(offsetMinutes, <<"U", "T", "C">> \o formatOffset(offsetMinutes))
        \* IANA Etc/GMT uses reversed signs
        Etc(hours) ==
            IF hours > 23 THEN NoZone
            ELSE EtcZone((IF raw[8] = "+" THEN -1 ELSE 1) * hours * minutesInHour)
        Checked(direction, hours, minutes) ==
            IF hours > 23 \/ minutes > 59 THEN NoZone
            ELSE FixedFromGroups(direction, hours, minutes)
        Bare(bm) ==
            IF bm.ok THEN Checked(raw[1], NumberOf(bm.hours), NumberOf(bm.minutes))
            ELSE NoZone
        Prefixed(afterPrefix, pm) ==
            IF pm.ok
            THEN Checked(Head(afterPrefix), NumberOf(pm.hours), NumberOf(pm.minutes))
            ELSE Bare(MatchHoursMinutes(IF n >= 1 /\ raw[1] \in {"+", "-"}
                                        THEN TrimLeft(Tail(raw)) ELSE <<>>))
        AfterPrefix(afterPrefix) ==
            Prefixed(afterPrefix,
                     MatchHoursMinutes(IF afterPrefix # <<>> /\ Head(afterPrefix) \in {"+", "-"}
                                       THEN TrimLeft(Tail(afterPrefix)) ELSE <<>>))
    IN  IF etc THEN Etc(NumberOf(SubSeq(raw, 9, n)))
        ELSE AfterPrefix(IF n >= 3 /\ ToLower(SubSeq(raw, 1, 3)) \in {<<"u", "t", "c">>, <<"g", "m", "t">>}
                         THEN TrimLeft(SubSeq(raw, 4, n)) ELSE <<>>)

\* new Intl.DateTimeFormat(.., {timeZone}) throws a RangeError for an unknown zone
isValidIanaTimeZone(timeZone) ==
    \E z \in IanaNames : ToLower(z) = ToLower(timeZone)

parseZone(raw) ==
    LET Resolve(value, fixed) ==
            IF fixed.kind # "none" THEN fixed
            ELSE IF isValidIanaTimeZone(value) THEN IanaZone(value, <<>>, FALSE)
            ELSE NoZone
        Trimmed(value, low) ==
            IF value = <<>> THEN NoZone
            ELSE IF low = <<"l", "o", "c", "a", "l">>
            THEN IanaZone(localTimeZone, <<"L", "o", "c", "a", "l">>, TRUE)
            ELSE IF low \in {<<"u", "t", "c">>, <<"g", "m", "t">>, <<"z">>}
            THEN FixedZone(0, <<"U", "T", "C">>)
            ELSE Resolve(value, parseFixedOffset(value))
        Value(value) == Trimmed(value, ToLower(value))
    IN  Value(Trim(raw))

zoneDisplayName(zone) ==
    IF zone.kind = "fixed" THEN zone.label
    ELSE IF zone.hasLabel THEN zone.label ELSE zone.name

(***************************************************************************)
(* Formatter caches (timezone.ts)                                          *)
(***************************************************************************)
\* new Map(): no key is mapped
EmptyCache == [key \in {} |-> 0]

\* what a request that threw a RangeError hands back
RangeError == [timeZone |-> <<>>, serial |-> 0]

\* new Intl.DateTimeFormat("en-US", {timeZone, ..}) succeeds for a zone Intl knows
DateTimeFormatAccepts(timeZone) ==
    \E z \in IanaNames : ToLower(z) = ToLower(timeZone)

\* a request that constructs and stores a formatter without looking first
FormatterRequestUncached(cache, prefix, timeZone) ==
    LET Fresh(formatter, cacheKey) ==
            [formatter |-> formatter, cache |-> (cacheKey :> formatter) @@ cache]
        Keyed(cacheKey) ==
            IF ~DateTimeFormatAccepts(timeZone)
            THEN [formatter |-> RangeError, cache |-> cache]
            ELSE Fresh([timeZone |-> timeZone, serial |-> Cardinality(DOMAIN cache) + 1],
                       cacheKey)
    IN  Keyed(prefix \o timeZone)

\* one request for a formatter handle: the cached handle when the key is
\* mapped, else a new handle, stored under the key; a zone Intl does not
\* know throws before anything is stored. A handle is told from every other
\* handle of its cache by its serial.
FormatterRequest(cache, prefix, timeZone) ==
    LET Fresh(formatter, cacheKey) ==
            [formatter |-> formatter, cache |-> cache @@ (cacheKey :> formatter)]
        Keyed(cacheKey) ==
            IF cacheKey \in DOMAIN cache
            THEN [formatter |-> cache[cacheKey], cache |-> cache]
            ELSE IF ~DateTimeFormatAccepts(timeZone)
            THEN [formatter |-> RangeError, cache |-> cache]
            ELSE Fresh([timeZone |-> timeZone, serial |-> Cardinality(DOMAIN cache) + 1],
                       cacheKey)
    IN  Keyed(prefix \o timeZone)

formatterForParts(cache, timeZone) ==
    FormatterRequest(cache, <<"p", "a", "r", "t", "s", ":">>, timeZone)

formatterForZoneName(cache, timeZone) ==
    FormatterRequest(cache, <<"z", "o", "n", "e", ":">>, timeZone)

\* the parts cache after the requests for the zones of a list, in order
RECURSIVE PartsCacheAfter(_, _)
PartsCacheAfter(cache, timeZones) ==
    IF timeZones = <<>> THEN cache
    ELSE PartsCacheAfter(formatterForParts(cache, Head(timeZones)).cache, Tail(timeZones))

\* the zone-name cache after the requests for the zones of a list, in order
RECURSIVE ZoneNameCacheAfter(_, _)
ZoneNameCacheAfter(cache, timeZones) ==
    IF timeZones = <<>> THEN cache
    ELSE ZoneNameCacheAfter(formatterForZoneName(cache, Head(timeZones)).cache,
                            Tail(timeZones))

\* the zones parseZone asks a parts formatter for: the trimmed value, when
\* it is neither a keyword nor a fixed offset (isValidIanaTimeZone)
parseZoneRequests(raw) ==
    LET Unfixed(value, fixed) == IF fixed.kind # "none" THEN <<>> ELSE <<value>>
        Trimmed(value, low) ==
            IF value = <<>> THEN <<>>
            ELSE IF low = <<"l", "o", "c", "a", "l">> THEN <<>>
            ELSE IF low \in {<<"u", "t", "c">>, <<"g", "m", "t">>, <<"z">>} THEN <<>>
            ELSE Unfixed(value, parseFixedOffset(value))
        Value(value) == Trimmed(value, ToLower(value))
    IN  Value(Trim(raw))

\* the zones toInstantFromComponents asks a parts formatter for: the named
\* zone once for each of its two offset readings
toInstantRequests(zone) ==
    IF zone.kind = "iana" THEN <<zone.name, zone.name>> ELSE <<>>

\* the zones formatInstantForZone asks a parts formatter for (toDateParts and
\* getTimeZoneOffsetMilliseconds)
formatInstantPartsRequests(zone) ==
    IF zone.kind = "iana" THEN <<zone.name, zone.name>> ELSE <<>>

\* the zones formatInstantForZone asks a zone-name formatter for (zoneName)
formatInstantZoneNameRequests(zone) ==
    IF zone.kind = "iana" THEN <<zone.name>> ELSE <<>>

(***************************************************************************)
(* Output zones (timezone.ts)                                              *)
(***************************************************************************)
\* IntToText is `${n}` for an integer
zoneKey(zone) ==
    LET IntToText(n) == IF n < 0 THEN <<"-">> \o NumToText(-n) ELSE NumToText(n)
    IN  IF zone.kind = "fixed"
        THEN <<"f", "i", "x", "e", "d", ":">> \o IntToText(zone.offsetMinutes)
        ELSE <<"i", "a", "n", "a", ":">> \o zone.name

\* a closure that appends every resolved zone, seen or not
pushUniqueUnseen(acc, zone) ==
    IF zone.kind = "none" THEN acc
    ELSE [zones |-> Append(acc.zones, zone), seen |-> acc.seen \cup {zoneKey(zone)}]

\* the closure of parseOutputZones over zones and seen
pushUnique(acc, zone) ==
    LET Keyed(key) ==
            IF key \in acc.seen THEN acc
            ELSE [zones |-> Append(acc.zones, zone), seen |-> acc.seen \cup {key}]
    IN  IF zone.kind = "none" THEN acc ELSE Keyed(zoneKey(zone))

\* an absent rawList; no text has this element
UndefinedText == <<"undefined">>

\* String.prototype.split(c)
RECURSIVE SplitOn(_, _)
SplitOn(s, c) ==
    LET At(i) ==
            IF i > Len(s) THEN <<s>>
            ELSE <<SubSeq(s, 1, i - 1)>> \o SplitOn(SubSeq(s, i + 1, Len(s)), c)
        First == CHOOSE i \in 1..(Len(s) + 1) :
                     /\ i <= Len(s) => s[i] = c
                     /\ \A j \in 1..(i - 1) : s[j] # c
    IN  At(First)

\* rawList?.split(",").map((entry) => entry.trim()).filter(Boolean)
rawEntriesOf(rawList) ==
    LET Kept(parts) ==
            SelectSeq([i \in DOMAIN parts |-> Trim(parts[i])], LAMBDA entry : entry # <<>>)
    IN  IF rawList = UndefinedText THEN <<>> ELSE Kept(SplitOn(rawList, ","))

\* for (const entry of rawEntries) pushUnique(parseZone(entry))
RECURSIVE PushEntries(_, _)
PushEntries(acc, rawEntries) ==
    IF rawEntries = <<>> THEN acc
    ELSE PushEntries(pushUnique(acc, parseZone(Head(rawEntries))), Tail(rawEntries))

parseOutputZones(rawList, includeLocal) ==
    LET Final(acc) ==
            IF Len(acc.zones) = 0
            THEN pushUnique(acc, parseZone(<<"U", "T", "C">>)).zones
            ELSE acc.zones
        Listed(acc) == Final(PushEntries(acc, rawEntriesOf(rawList)))
        Start(acc) ==
            Listed(IF includeLocal
                   THEN pushUnique(acc, parseZone(<<"L", "o", "c", "a", "l">>))
                   ELSE acc)
    IN  Start([zones |-> <<>>, seen |-> {}])

\* the zones parseOutputZones asks a parts formatter for: those of each
\* parseZone(entry); Local and UTC ask for none
RECURSIVE EntriesRequests(_)
EntriesRequests(rawEntries) ==
    IF rawEntries = <<>> THEN <<>>
    ELSE parseZoneRequests(Head(rawEntries)) \o EntriesRequests(Tail(rawEntries))

parseOutputZonesRequests(rawList) == EntriesRequests(rawEntriesOf(rawList))

(***************************************************************************)
(* Instant converter (timezone.ts)                                         *)
(***************************************************************************)
\* a converter that adds a Fixed zone's offset instead of subtracting it
toInstantAddingOffset(components, zone) ==
    ShiftMs(DateUTC(components.year, components.month, components.day,
                    components.hour, components.minute, components.second,
                    components.millisecond),
            zone.offsetMinutes * millisecondsInMinute)

\* components: [year, month, day, hour, minute, second, millisecond], the
\* optional fields already defaulted to 0
toInstantFromComponents(components, zone) ==
    LET Settle(utcGuess, firstOffset, adjusted, secondOffset) ==
            IF secondOffset # firstOffset
            THEN ShiftMs(utcGuess, -secondOffset)
            ELSE adjusted
        Second(utcGuess, firstOffset, adjusted) ==
            Settle(utcGuess, firstOffset, adjusted,
                   IF adjusted.k = "date"
                   THEN getTimeZoneOffsetMilliseconds(adjusted, zone.name)
                   ELSE firstOffset)
        First(utcGuess, firstOffset) ==
            Second(utcGuess, firstOffset, ShiftMs(utcGuess, -firstOffset))
        From(utcGuess) ==
            IF zone.kind = "fixed"
            THEN ShiftMs(utcGuess, -(zone.offsetMinutes * millisecondsInMinute))
            ELSE IF utcGuess.k # "date" THEN NaNDate
            ELSE First(utcGuess, getTimeZoneOffsetMilliseconds(utcGuess, zone.name))
    IN  From(DateUTC(components.year, components.month, components.day,
                     components.hour, components.minute, components.second,
                     components.millisecond))

\* a formatter that prints the UTC fields of the instant beside the zone's offset
formatInstantUnshifted(date, zone) ==
    IF zone.kind = "fixed"
    THEN formatDateString(UtcParts(date), zone.offsetMinutes, zone.label)
    ELSE formatDateString(UtcParts(date), 0, zoneName(date, zone.name))

formatInstantForZone(date, zone) ==
    LET \* Math.trunc(ms / millisecondsInMinute)
        Minutes(ms) == IF ms >= 0 THEN ms \div millisecondsInMinute
                       ELSE -((-ms) \div millisecondsInMinute)
    IN  IF zone.kind = "fixed"
        THEN formatDateString(UtcParts(ShiftMs(date, zone.offsetMinutes * millisecondsInMinute)),
                              zone.offsetMinutes, zone.label)
        ELSE formatDateString(toDateParts(date, zone.name),
                              Minutes(getTimeZoneOffsetMilliseconds(date, zone.name)),
                              zoneName(date, zone.name))

(***************************************************************************)
(* Tokens: the regular expressions of the parser are matched on the runs   *)
(* of the text. A token is a maximal run of digits ("d"), of Latin letters *)
(* ("a") or of whitespace ("s"), or one other character ("o"). Every       *)
(* pattern of the parser separates its digit and letter groups by          *)
(* characters of another class, so a group matches exactly a whole run.    *)
(***************************************************************************)
CharClass(c) ==
    IF c \in DigitChars THEN "d"
    ELSE IF c \in LetterChars THEN "a"
    ELSE IF c \in SpaceChars THEN "s"
    ELSE "o"

RECURSIVE RunLength(_, _)
RunLength(s, class) ==
    IF s = <<>> \/ CharClass(Head(s)) # class THEN 0
    ELSE 1 + RunLength(Tail(s), class)

RECURSIVE Tokenize(_)
Tokenize(s) ==
    IF s = <<>> THEN <<>>
    ELSE LET class == CharClass(Head(s))
             n     == IF class = "o" THEN 1 ELSE RunLength(s, class)
         IN  <<[t |-> class, v |-> SubSeq(s, 1, n)]>> \o Tokenize(SubSeq(s, n + 1, Len(s)))

\* token i of ts is a run of lo..hi digits: \d{lo,hi}
IsDigits(ts, i, lo, hi) ==
    i <= Len(ts) /\ ts[i].t = "d" /\ Len(ts[i].v) >= lo /\ Len(ts[i].v) <= hi

\* token i of ts is a run of lo..hi letters: [A-Za-z]{lo,hi}
IsLetters(ts, i, lo, hi) ==
    i <= Len(ts) /\ ts[i].t = "a" /\ Len(ts[i].v) >= lo /\ Len(ts[i].v) <= hi

\* token i of ts is whitespace: \s+
IsSpace(ts, i) == i <= Len(ts) /\ ts[i].t = "s"

\* token i of ts is the literal character c
IsLit(ts, i, c) == i <= Len(ts) /\ ts[i].t = "o" /\ ts[i].v = <<c>>

\* token i of ts is one of the words, letter case ignored (the i flag)
IsWord(ts, i, words) == i <= Len(ts) /\ ts[i].t = "a" /\ ToLower(ts[i].v) \in words

Meridiems == {<<"a", "m">>, <<"p", "m">>}

(***************************************************************************)
(* Parser helpers (part_000)                                               *)
(***************************************************************************)
\* monthMap[token.toLowerCase()] ?? null, 0 for null
parseMonthToken(token) ==
    LET t == ToLower(token)
    IN  CASE
         t = <<"j", "a", "n">> -> 1
      [] t = <<"j", "a", "n", "u", "a", "r", "y">> -> 1
      [] t = <<"f", "e", "b">> -> 2
      [] t = <<"f", "e", "b", "r", "u", "a", "r", "y">> -> 2
      [] t = <<"m", "a", "r">> -> 3
      [] t = <<"m", "a", "r", "c", "h">> -> 3
      [] t = <<"a", "p", "r">> -> 4
      [] t = <<"a", "p", "r", "i", "l">> -> 4
      [] t = <<"m", "a", "y">> -> 5
      [] t = <<"j", "u", "n">> -> 6
      [] t = <<"j", "u", "n", "e">> -> 6
      [] t = <<"j", "u", "l">> -> 7
      [] t = <<"j", "u", "l", "y">> -> 7
      [] t = <<"a", "u", "g">> -> 8
      [] t = <<"a", "u", "g", "u", "s", "t">> -> 8
      [] t = <<"s", "e", "p">> -> 9
      [] t = <<"s", "e", "p", "t">> -> 9
      [] t = <<"s", "e", "p", "t", "e", "m", "b", "e", "r">> -> 9
      [] t = <<"o", "c", "t">> -> 10
      [] t = <<"o", "c", "t", "o", "b", "e", "r">> -> 10
      [] t = <<"n", "o", "v">> -> 11
      [] t = <<"n", "o", "v", "e", "m", "b", "e", "r">> -> 11
      [] t = <<"d", "e", "c">> -> 12
      [] t = <<"d", "e", "c", "e", "m", "b", "e", "r">> -> 12
      [] OTHER -> 0

\* an expansion with the boundary one year late
expandTwoDigitYearAt70(value) == IF value >= 70 THEN 1900 + value ELSE 2000 + value

expandTwoDigitYear(value) == IF value >= 69 THEN 1900 + value ELSE 2000 + value

\* `${rawFraction}000`.slice(0, 3); an absent group is <<>>
parseFractionMilliseconds(rawFraction) ==
    IF rawFraction = <<>> THEN 0
    ELSE NumberOf(SubSeq(rawFraction \o <<"0", "0", "0">>, 1, 3))

\* -1 stands for null; an absent meridiem is <<>>
applyMeridiem(hour, meridiem) ==
    IF meridiem = <<>> THEN hour
    ELSE IF hour < 1 \/ hour > 12 THEN -1
    ELSE IF ToLower(meridiem) = <<"a", "m">> THEN (IF hour = 12 THEN 0 ELSE hour)
    ELSE IF ToLower(meridiem) = <<"p", "m">> THEN (IF hour = 12 THEN 12 ELSE hour + 12)
    ELSE -1

\* a validation that checks the ranges only, without the round trip
isValidCalendarDateRangesOnly(year, month, day) ==
    ~(month < 1 \/ month > 12 \/ day < 1 \/ day > 31)

isValidCalendarDate(year, month, day) ==
    LET Same(c) == c.year = year /\ c.month = month /\ c.day = day
    IN  IF month < 1 \/ month > 12 \/ day < 1 \/ day > 31 THEN FALSE
        ELSE Same(CivilFromDays(DateUTC(year, month, day, 0, 0, 0, 0).d))

Components(year, month, day, hour, minute, second, millisecond) ==
    [year |-> year, month |-> month, day |-> day, hour |-> hour,
     minute |-> minute, second |-> second, millisecond |-> millisecond]

buildDateFromComponents(base, zone) ==
    IF ~isValidCalendarDate(base.year, base.month, base.day) THEN Null
    ELSE IF base.hour < 0 \/ base.hour > 23 \/ base.minute < 0 \/ base.minute > 59
            \/ base.second < 0 \/ base.second > 59 THEN Null
    ELSE IF base.millisecond < 0 \/ base.millisecond > 999 THEN Null
    ELSE toInstantFromComponents(base, zone)

parseComponentsWithMeridiem(year, month, day, hour, minute, second, millisecond, zone, meridiem) ==
    LET normalizedHour == applyMeridiem(hour, meridiem)
    IN  IF normalizedHour = -1 THEN Null
        ELSE buildDateFromComponents(
                 Components(year, month, day, normalizedHour, minute, second, millisecond), zone)

(***************************************************************************)
(* Decimal numerals: BigInt(input) and the doubles of parseAgo are kept as *)
(* digit text, since the values pass 2^31                                  *)
(***************************************************************************)
RECURSIVE StripZeros(_)
StripZeros(s) ==
    IF Len(s) > 1 /\ Head(s) = "0" THEN StripZeros(Tail(s)) ELSE s

\* a > b for numerals without leading zeros
RECURSIVE NumeralGreater(_, _)
NumeralGreater(a, b) ==
    IF Len(a) # Len(b) THEN Len(a) > Len(b)
    ELSE IF a = <<>> THEN FALSE
    ELSE IF Head(a) # Head(b) THEN DigitVal(Head(a)) > DigitVal(Head(b))
    ELSE NumeralGreater(Tail(a), Tail(b))

\* [q, r] of numeral s by divisor m, by long division; q is a numeral
RECURSIVE DivModNumeral(_, _, _, _)
DivModNumeral(s, m, q, r) ==
    IF s = <<>> THEN [q |-> StripZeros(q), r |-> r]
    ELSE LET cur == r * 10 + DigitVal(Head(s))
         IN  DivModNumeral(Tail(s), m, q \o <<DigitChar(cur \div m)>>, cur % m)

\* maxDateMilliseconds = 8_640_000_000_000_000
maxDateMilliseconds == <<"8", "6", "4", "0", "0", "0", "0", "0", "0", "0", "0", "0", "0", "0", "0", "0">>

\* new Date(milliseconds) of a numeral within the Date range
DateOfNumeral(msNumeral) ==
    LET qr == DivModNumeral(msNumeral, MsPerDay, <<"0">>, 0)
    IN  MkDate(NumberOf(qr.q), qr.r)

(***************************************************************************)
(* Format parsers (part_000)                                               *)
(***************************************************************************)
parseNow(text, now) ==
    LET t == Trim(text)
    IN  IF Len(t) >= 3 /\ ToLower(SubSeq(t, 1, 3)) = <<"n", "o", "w">>
        THEN MkDate(now.d, now.ms - (now.ms % 1000))
        ELSE Null

AgoUnits == {<<"m", "i", "n", "u", "t", "e">>, <<"m", "i", "n", "u", "t", "e", "s">>, <<"h", "o", "u", "r">>, <<"h", "o", "u", "r", "s">>, <<"d", "a", "y">>, <<"d", "a", "y", "s">>}

parseAgo(text, now) ==
    LET ts == Tokenize(Trim(text))
        matched == /\ Len(ts) = 5
                   /\ IsDigits(ts, 1, 1, Len(text))
                   /\ IsSpace(ts, 2)
                   /\ IsWord(ts, 3, AgoUnits)
                   /\ IsSpace(ts, 4)
                   /\ IsWord(ts, 5, {<<"a", "g", "o">>})
    IN  IF ~matched THEN Null
        ELSE LET amount == StripZeros(ts[1].v)
                 unit   == ToLower(ts[3].v)
                 \* the multiplier, as the number of units in a day and the
                 \* milliseconds of one unit
                 perDay == IF unit[1] = "m" THEN 1440 ELSE IF unit[1] = "h" THEN 24 ELSE 1
                 unitMs == IF unit[1] = "m" THEN 60000
                           ELSE IF unit[1] = "h" THEN 3600000 ELSE MsPerDay
                 qr     == DivModNumeral(amount, perDay, <<"0">>, 0)
             IN  \* Number.isFinite(amount): a numeral past 1.8e308 is Infinity
                 IF Len(amount) > 309 THEN Null
                 \* more than 10^9 days back: outside the Date range
                 ELSE IF Len(qr.q) > 9 THEN NaNDate
                 ELSE MkDate(now.d - NumberOf(qr.q), now.ms - qr.r * unitMs)

\* a parser that already reads 13 digits as microseconds
parseNumericMicrosFrom13(text, zone) ==
    LET n == Len(text)
    IN  IF n = 0 \/ ~AllDigits(text) THEN Null
        ELSE IF n = 14 /\ text[1] = "2" THEN
            parseComponentsWithMeridiem(
                NumberOf(SubSeq(text, 1, 4)), NumberOf(SubSeq(text, 5, 6)),
                NumberOf(SubSeq(text, 7, 8)), NumberOf(SubSeq(text, 9, 10)),
                NumberOf(SubSeq(text, 11, 12)), NumberOf(SubSeq(text, 13, 14)),
                0, zone, <<>>)
        ELSE IF n = 8 /\ text[1] = "2" THEN
            buildDateFromComponents(
                Components(NumberOf(SubSeq(text, 1, 4)), NumberOf(SubSeq(text, 5, 6)),
                           NumberOf(SubSeq(text, 7, 8)), 0, 0, 0, 0), zone)
        ELSE IF n = 4 /\ text[1] = "2" THEN
            buildDateFromComponents(Components(NumberOf(text), 1, 1, 0, 0, 0, 0), zone)
        ELSE
            LET numeric == StripZeros(text)
                k       == Len(numeric)
                milliseconds ==
                    IF n > 16 THEN (IF k > 6 THEN SubSeq(numeric, 1, k - 6) ELSE <<"0">>)
                    ELSE IF n >= 13 THEN (IF k > 3 THEN SubSeq(numeric, 1, k - 3) ELSE <<"0">>)
                    ELSE IF n > 10 THEN numeric
                    ELSE StripZeros(numeric \o <<"0", "0", "0">>)
            IN  IF NumeralGreater(milliseconds, maxDateMilliseconds) THEN Null
                ELSE DateOfNumeral(milliseconds)

parseNumeric(text, zone) ==
    LET n == Len(text)
    IN  IF n = 0 \/ ~AllDigits(text) THEN Null
        ELSE IF n = 14 /\ text[1] = "2" THEN
            parseComponentsWithMeridiem(
                NumberOf(SubSeq(text, 1, 4)), NumberOf(SubSeq(text, 5, 6)),
                NumberOf(SubSeq(text, 7, 8)), NumberOf(SubSeq(text, 9, 10)),
                NumberOf(SubSeq(text, 11, 12)), NumberOf(SubSeq(text, 13, 14)),
                0, zone, <<>>)
        ELSE IF n = 8 /\ text[1] = "2" THEN
            buildDateFromComponents(
                Components(NumberOf(SubSeq(text, 1, 4)), NumberOf(SubSeq(text, 5, 6)),
                           NumberOf(SubSeq(text, 7, 8)), 0, 0, 0, 0), zone)
        ELSE IF n = 4 /\ text[1] = "2" THEN
            buildDateFromComponents(Components(NumberOf(text), 1, 1, 0, 0, 0, 0), zone)
        ELSE
            LET numeric == StripZeros(text)
                k       == Len(numeric)
                milliseconds ==
                    IF n > 16 THEN (IF k > 6 THEN SubSeq(numeric, 1, k - 6) ELSE <<"0">>)
                    ELSE IF n > 13 THEN (IF k > 3 THEN SubSeq(numeric, 1, k - 3) ELSE <<"0">>)
                    ELSE IF n > 10 THEN numeric
                    ELSE StripZeros(numeric \o <<"0", "0", "0">>)
            IN  IF NumeralGreater(milliseconds, maxDateMilliseconds) THEN Null
                ELSE DateOfNumeral(milliseconds)

parseChineseDate(text, zone) ==
    LET ts == Tokenize(Trim(text))
        date == /\ IsDigits(ts, 1, 4, 4) /\ IsLit(ts, 2, "u5E74")
                /\ IsDigits(ts, 3, 1, 2) /\ IsLit(ts, 4, "u6708")
                /\ IsDigits(ts, 5, 1, 2) /\ IsLit(ts, 6, "u65E5")
        time == /\ IsSpace(ts, 7) /\ IsDigits(ts, 8, 1, 2) /\ IsLit(ts, 9, ":")
                /\ IsDigits(ts, 10, 2, 2)
    IN  IF date /\ Len(ts) = 6
        THEN parseComponentsWithMeridiem(NumberOf(ts[1].v), NumberOf(ts[3].v),
                 NumberOf(ts[5].v), 0, 0, 0, 0, zone, <<>>)
        ELSE IF date /\ time /\ Len(ts) = 10
        THEN parseComponentsWithMeridiem(NumberOf(ts[1].v), NumberOf(ts[3].v),
                 NumberOf(ts[5].v), NumberOf(ts[8].v), NumberOf(ts[10].v), 0, 0, zone, <<>>)
        ELSE Null

\* (\d{1,2}):(\d{2})(?::(\d{2}))?(?:[.,](\d{1,9}))?(?:\s*(AM|PM))?$ from token i;
\* an absent group is <<>>
MatchTimeTail(ts, i) ==
    LET base    == IsDigits(ts, i, 1, 2) /\ IsLit(ts, i + 1, ":") /\ IsDigits(ts, i + 2, 2, 2)
        j1      == i + 3
        hasSec  == IsLit(ts, j1, ":") /\ IsDigits(ts, j1 + 1, 2, 2)
        j2      == IF hasSec THEN j1 + 2 ELSE j1
        hasFrac == (IsLit(ts, j2, ".") \/ IsLit(ts, j2, ",")) /\ IsDigits(ts, j2 + 1, 1, 9)
        j3      == IF hasFrac THEN j2 + 2 ELSE j2
        merAt   == IF IsSpace(ts, j3) /\ IsWord(ts, j3 + 1, Meridiems) THEN j3 + 1
                   ELSE IF IsWord(ts, j3, Meridiems) THEN j3 ELSE 0
        j4      == IF merAt # 0 THEN merAt + 1 ELSE j3
    IN  IF base /\ j4 = Len(ts) + 1
        THEN [ok |-> TRUE, hour |-> ts[i].v, minute |-> ts[i + 2].v,
              second |-> IF hasSec THEN ts[j1 + 1].v ELSE <<>>,
              fraction |-> IF hasFrac THEN ts[j2 + 1].v ELSE <<>>,
              meridiem |-> IF merAt # 0 THEN ts[merAt].v ELSE <<>>]
        ELSE [ok |-> FALSE, hour |-> <<>>, minute |-> <<>>, second |-> <<>>,
              fraction |-> <<>>, meridiem |-> <<>>]

parseDashDate(text, zone) ==
    LET ts == Tokenize(text)
        ym == IsDigits(ts, 1, 4, 4) /\ IsLit(ts, 2, "-")
        plainDate == /\ Len(ts) = 5 /\ ym /\ IsDigits(ts, 3, 1, 2)
                     /\ IsLit(ts, 4, "-") /\ IsDigits(ts, 5, 1, 2)
        yearMonth == Len(ts) = 3 /\ ym /\ IsDigits(ts, 3, 1, 2)
        monthText == /\ Len(ts) = 5 /\ ym /\ IsLetters(ts, 3, 3, 3)
                     /\ IsLit(ts, 4, "-") /\ IsDigits(ts, 5, 1, 2)
        \* [T\s] under the i flag: one letter t or T, or one whitespace character
        sep == \/ IsWord(ts, 6, {<<"t">>})
               \/ (IsSpace(ts, 6) /\ Len(ts[6].v) = 1)
        tail == MatchTimeTail(ts, 7)
        dateTime == /\ ym /\ IsDigits(ts, 3, 1, 2) /\ IsLit(ts, 4, "-")
                    /\ IsDigits(ts, 5, 1, 2) /\ sep /\ tail.ok
    IN  IF plainDate
        THEN buildDateFromComponents(
                 Components(NumberOf(ts[1].v), NumberOf(ts[3].v), NumberOf(ts[5].v), 0, 0, 0, 0), zone)
        ELSE IF yearMonth
        THEN buildDateFromComponents(
                 Components(NumberOf(ts[1].v), NumberOf(ts[3].v), 1, 0, 0, 0, 0), zone)
        ELSE IF monthText
        THEN IF parseMonthToken(ts[3].v) = 0 THEN Null
             ELSE buildDateFromComponents(
                      Components(NumberOf(ts[1].v), parseMonthToken(ts[3].v),
                                 NumberOf(ts[5].v), 0, 0, 0, 0), zone)
        ELSE IF ~dateTime THEN Null
        ELSE parseComponentsWithMeridiem(
                 NumberOf(ts[1].v), NumberOf(ts[3].v), NumberOf(ts[5].v),
                 NumberOf(tail.hour), NumberOf(tail.minute), NumberOf(tail.second),
                 parseFractionMilliseconds(tail.fraction), zone, tail.meridiem)

\* the first attempt of the list that parseComponentsWithMeridiem accepts
RECURSIVE FirstAccepted(_, _, _)
FirstAccepted(attempts, tail, zone) ==
    IF attempts = <<>> THEN Null
    ELSE LET a == Head(attempts)
             candidate == parseComponentsWithMeridiem(
                              a.year, a.month, a.day,
                              NumberOf(tail.hour), NumberOf(tail.minute),
                              NumberOf(tail.second),
                              parseFractionMilliseconds(tail.fraction), zone, tail.meridiem)
         IN  IF candidate.k # "null" THEN candidate
             ELSE FirstAccepted(Tail(attempts), tail, zone)

slashAttempts(a, b, c) ==
    IF Len(a) = 4
    THEN <<[year |-> NumberOf(a), month |-> NumberOf(b), day |-> NumberOf(c)]>>
    ELSE IF Len(c) = 4
    THEN <<[year |-> NumberOf(c), month |-> NumberOf(a), day |-> NumberOf(b)]>>
    ELSE IF Len(a) <= 2 /\ Len(b) <= 2 /\ Len(c) <= 2
    THEN <<[year |-> expandTwoDigitYear(NumberOf(a)), month |-> NumberOf(b), day |-> NumberOf(c)],
           [year |-> expandTwoDigitYear(NumberOf(c)), month |-> NumberOf(a), day |-> NumberOf(b)]>>
    ELSE <<>>

parseSlashDate(text, zone) ==
    LET ts == Tokenize(text)
        date == /\ IsDigits(ts, 1, 1, 4) /\ IsLit(ts, 2, "/") /\ IsDigits(ts, 3, 1, 2)
                /\ IsLit(ts, 4, "/") /\ IsDigits(ts, 5, 1, 4)
        noTime == [ok |-> TRUE, hour |-> <<>>, minute |-> <<>>, second |-> <<>>,
                   fraction |-> <<>>, meridiem |-> <<>>]
        tail == IF Len(ts) = 5 THEN noTime
                ELSE IF IsSpace(ts, 6) THEN MatchTimeTail(ts, 7)
                ELSE [noTime EXCEPT !.ok = FALSE]
    IN  IF ~(date /\ tail.ok) THEN Null
        ELSE FirstAccepted(slashAttempts(ts[1].v, ts[3].v, ts[5].v), tail, zone)

parseDayMonthName(text, zone) ==
    LET ts == Tokenize(Trim(text))
        \* ,\s* : the comma and optional whitespace
        k  == IF IsSpace(ts, 7) THEN 8 ELSE 7
        matched == /\ IsDigits(ts, 1, 1, 2) /\ IsSpace(ts, 2) /\ IsLetters(ts, 3, 3, 3)
                   /\ IsSpace(ts, 4) /\ IsDigits(ts, 5, 4, 4) /\ IsLit(ts, 6, ",")
                   /\ IsDigits(ts, k, 1, 2) /\ IsLit(ts, k + 1, ":") /\ IsDigits(ts, k + 2, 2, 2)
        hasSec  == IsLit(ts, k + 3, ":") /\ IsDigits(ts, k + 4, 2, 2)
        end     == IF hasSec THEN k + 4 ELSE k + 2
    IN  IF ~(matched /\ Len(ts) = end) THEN Null
        ELSE IF parseMonthToken(ts[3].v) = 0 THEN Null
        ELSE parseComponentsWithMeridiem(
                 NumberOf(ts[5].v), parseMonthToken(ts[3].v), NumberOf(ts[1].v),
                 NumberOf(ts[k].v), NumberOf(ts[k + 2].v),
                 IF hasSec THEN NumberOf(ts[k + 4].v) ELSE 0, 0, zone, <<>>)

parseMonthNameDate(text, zone) ==
    LET ts == Tokenize(Trim(text))
        k  == IF IsSpace(ts, 5) THEN 6 ELSE 5
        date == /\ IsLetters(ts, 1, 3, 9) /\ IsSpace(ts, 2) /\ IsDigits(ts, 3, 1, 2)
                /\ IsLit(ts, 4, ",") /\ IsDigits(ts, k, 4, 4)
        \* \s+(\d{1,2}):(\d{2}):(\d{2})\s*(AM|PM)
        m  == IF IsSpace(ts, k + 7) THEN k + 8 ELSE k + 7
        time == /\ IsSpace(ts, k + 1) /\ IsDigits(ts, k + 2, 1, 2) /\ IsLit(ts, k + 3, ":")
                /\ IsDigits(ts, k + 4, 2, 2) /\ IsLit(ts, k + 5, ":")
                /\ IsDigits(ts, k + 6, 2, 2) /\ IsWord(ts, m, Meridiems)
    IN  IF date /\ Len(ts) = k
        THEN IF parseMonthToken(ts[1].v) = 0 THEN Null
             ELSE parseComponentsWithMeridiem(
                      NumberOf(ts[k].v), parseMonthToken(ts[1].v), NumberOf(ts[3].v),
                      0, 0, 0, 0, zone, <<>>)
        ELSE IF date /\ time /\ Len(ts) = m
        THEN IF parseMonthToken(ts[1].v) = 0 THEN Null
             ELSE parseComponentsWithMeridiem(
                      NumberOf(ts[k].v), parseMonthToken(ts[1].v), NumberOf(ts[3].v),
                      NumberOf(ts[k + 2].v), NumberOf(ts[k + 4].v), NumberOf(ts[k + 6].v),
                      0, zone, ts[m].v)
        ELSE Null

parseAnsiStyle(text, zone) ==
    LET ts == Tokenize(Trim(text))
        \* (?:[A-Za-z]{3}\s+)? : the optional weekday
        k  == IF Len(ts) = 13 /\ IsLetters(ts, 1, 3, 3) /\ IsSpace(ts, 2) THEN 3 ELSE 1
        matched == /\ Len(ts) = k + 10
                   /\ IsLetters(ts, k, 3, 3) /\ IsSpace(ts, k + 1) /\ IsDigits(ts, k + 2, 1, 2)
                   /\ IsSpace(ts, k + 3) /\ IsDigits(ts, k + 4, 1, 2) /\ IsLit(ts, k + 5, ":")
                   /\ IsDigits(ts, k + 6, 2, 2) /\ IsLit(ts, k + 7, ":")
                   /\ IsDigits(ts, k + 8, 2, 2) /\ IsSpace(ts, k + 9)
                   /\ IsDigits(ts, k + 10, 4, 4)
    IN  IF ~matched THEN Null
        ELSE IF parseMonthToken(ts[k].v) = 0 THEN Null
        ELSE parseComponentsWithMeridiem(
                 NumberOf(ts[k + 10].v), parseMonthToken(ts[k].v), NumberOf(ts[k + 2].v),
                 NumberOf(ts[k + 4].v), NumberOf(ts[k + 6].v), NumberOf(ts[k + 8].v),
                 0, zone, <<>>)

(***************************************************************************)
(* native fallback (part_000)                                              *)
(***************************************************************************)
\* \b before position i of s: the characters around the gap differ in \w
BoundaryBefore(s, i) ==
    LET left  == i > 1 /\ i - 1 <= Len(s) /\ s[i - 1] \in WordChars
        right == i >= 1 /\ i <= Len(s) /\ s[i] \in WordChars
    IN  left # right

ZoneNameChars == LetterChars \cup {"_"}

hasExplicitTimeZone(text) ==
    LET t   == Trim(text)
        n   == Len(t)
        low == ToLower(t)
        isD(i) == i >= 1 /\ i <= n /\ t[i] \in DigitChars
        \* /\b(?:UTC|GMT)\b/i
        word == \E i \in 1..n :
                    /\ i + 2 <= n
                    /\ SubSeq(low, i, i + 2) \in {<<"u", "t", "c">>, <<"g", "m", "t">>}
                    /\ BoundaryBefore(t, i) /\ BoundaryBefore(t, i + 3)
        \* /Etc\/GMT[+-]\d{1,2}/i
        etc == \E i \in 1..n :
                    /\ i + 8 <= n
                    /\ SubSeq(low, i, i + 6) = <<"e", "t", "c", "/", "g", "m", "t">>
                    /\ t[i + 7] \in {"+", "-"}
                    /\ isD(i + 8)
        \* /\b[A-Za-z_]+\/[A-Za-z_]+\b/ : around a slash, a run of name
        \* characters that starts, and one that ends, at a word boundary
        region == \E j \in 2..n :
                    /\ t[j] = "/"
                    /\ \E a \in 1..(j - 1) :
                         /\ BoundaryBefore(t, a)
                         /\ \A x \in a..(j - 1) : t[x] \in ZoneNameChars
                    /\ \E b \in (j + 1)..n :
                         /\ BoundaryBefore(t, b + 1)
                         /\ \A x \in (j + 1)..b : t[x] \in ZoneNameChars
        \* /[+-]\d{2}:?\d{2}(?!\d)/
        offset == \E i \in 1..n :
                    /\ t[i] \in {"+", "-"}
                    /\ isD(i + 1) /\ isD(i + 2)
                    /\ \/ (isD(i + 3) /\ isD(i + 4) /\ ~isD(i + 5))
                       \/ (i + 3 <= n /\ t[i + 3] = ":" /\ isD(i + 4) /\ isD(i + 5) /\ ~isD(i + 6))
        \* /\dZ$/
        zulu == n >= 2 /\ t[n] = "Z" /\ isD(n - 1)
    IN  word \/ etc \/ region \/ offset \/ zulu

\* Date.parse(normalizeNativeInput(input)) is the engine's own parser: what it
\* makes of a text is implementation-defined, so its answer is the value
\* native, any of NativeOutcomes
parseWithNativeDate(text, zone, native) ==
    LET explicitTimeZone == hasExplicitTimeZone(text)
        sourceIsLocal    == zone.kind = "iana" /\ zone.name = localTimeZone
    IN  IF ~explicitTimeZone /\ ~sourceIsLocal THEN Null
        ELSE IF native.k = "nan" THEN Null
        ELSE native

(***************************************************************************)
(* Classifier, splitter and pipeline (part_000)                            *)
(***************************************************************************)
\* a classifier that looks for '/' before '-'
detectStateSlashFirst(text) ==
    LET value == Trim(text)
    IN  IF value = <<>> THEN "unknown"
        ELSE IF value[1] \in DigitChars THEN
            IF AllDigits(value) THEN "digit"
            ELSE IF \E i \in 1..Len(value) : value[i] = "/" THEN "digit-slash"
            ELSE IF \E i \in 1..Len(value) : value[i] = "-" THEN "digit-dash"
            ELSE IF \E i \in 1..Len(value) : value[i] \in LetterChars \cup CjkChars
            THEN "digit-alpha"
            ELSE "digit"
        ELSE IF value[1] \in LetterChars THEN "alpha"
        ELSE "unknown"

detectState(text) ==
    LET value == Trim(text)
    IN  IF value = <<>> THEN "unknown"
        ELSE IF value[1] \in DigitChars THEN
            IF AllDigits(value) THEN "digit"
            ELSE IF \E i \in 1..Len(value) : value[i] = "-" THEN "digit-dash"
            ELSE IF \E i \in 1..Len(value) : value[i] = "/" THEN "digit-slash"
            ELSE IF \E i \in 1..Len(value) : value[i] \in LetterChars \cup CjkChars
            THEN "digit-alpha"
            ELSE "digit"
        ELSE IF value[1] \in LetterChars THEN "alpha"
        ELSE "unknown"

\* a splitter that drops the suffix even when it does not resolve
splitInputAndZoneConsuming(raw, defaultZone) ==
    LET trimmed    == Trim(raw)
        commaIndex == LastIndexOf(trimmed, ",")
        left       == Trim(SubSeq(trimmed, 1, commaIndex - 1))
        right      == Trim(SubSeq(trimmed, commaIndex + 1, Len(trimmed)))
        zone       == parseZone(right)
    IN  IF commaIndex <= 1 THEN [input |-> trimmed, sourceZone |-> defaultZone]
        ELSE IF zone.kind = "none" THEN [input |-> left, sourceZone |-> defaultZone]
        ELSE [input |-> left, sourceZone |-> zone]

\* a splitter that keeps the raw text as typed when there is no suffix
splitInputAndZoneUntrimmed(raw, defaultZone) ==
    LET trimmed    == Trim(raw)
        commaIndex == LastIndexOf(trimmed, ",")
        left       == Trim(SubSeq(trimmed, 1, commaIndex - 1))
        right      == Trim(SubSeq(trimmed, commaIndex + 1, Len(trimmed)))
        zone       == parseZone(right)
    IN  IF commaIndex <= 1 THEN [input |-> raw, sourceZone |-> defaultZone]
        ELSE IF zone.kind = "none" THEN [input |-> trimmed, sourceZone |-> defaultZone]
        ELSE [input |-> left, sourceZone |-> zone]

splitInputAndZone(raw, defaultZone) ==
    LET trimmed    == Trim(raw)
        commaIndex == LastIndexOf(trimmed, ",")
        left       == Trim(SubSeq(trimmed, 1, commaIndex - 1))
        right      == Trim(SubSeq(trimmed, commaIndex + 1, Len(trimmed)))
        zone       == parseZone(right)
    IN  IF commaIndex <= 1 THEN [input |-> trimmed, sourceZone |-> defaultZone]
        ELSE IF zone.kind = "none" THEN [input |-> trimmed, sourceZone |-> defaultZone]
        ELSE [input |-> left, sourceZone |-> zone]

\* a pipeline that tries chinese before dash in the digit-dash state
parserPipelineReordered(st) ==
    LET common == <<"now", "ago">>
    IN  IF st = "digit" THEN common \o <<"numeric", "native">>
        ELSE IF st = "digit-dash" THEN common \o <<"chinese", "dash", "native">>
        ELSE IF st = "digit-slash" THEN common \o <<"slash", "native">>
        ELSE IF st = "digit-alpha" THEN common \o <<"chinese", "day-month-name", "native">>
        ELSE IF st = "alpha" THEN common \o <<"month-name", "ansi", "native">>
        ELSE common \o <<"numeric", "dash", "slash", "chinese", "native">>

\* a pipeline whose digit-alpha state tries day-month-name only
parserPipelineByNameOnly(st) ==
    LET common == <<"now", "ago">>
    IN  IF st = "digit" THEN common \o <<"numeric", "native">>
        ELSE IF st = "digit-dash" THEN common \o <<"dash", "chinese", "native">>
        ELSE IF st = "digit-slash" THEN common \o <<"slash", "native">>
        ELSE IF st = "digit-alpha" THEN common \o <<"day-month-name", "native">>
        ELSE IF st = "alpha" THEN common \o <<"month-name", "ansi", "native">>
        ELSE common \o <<"numeric", "dash", "slash", "chinese", "native">>

parserPipeline(st) ==
    LET common == <<"now", "ago">>
    IN  IF st = "digit" THEN common \o <<"numeric", "native">>
        ELSE IF st = "digit-dash" THEN common \o <<"dash", "chinese", "native">>
        ELSE IF st = "digit-slash" THEN common \o <<"slash", "native">>
        ELSE IF st = "digit-alpha" THEN common \o <<"chinese", "day-month-name", "native">>
        ELSE IF st = "alpha" THEN common \o <<"month-name", "ansi", "native">>
        ELSE common \o <<"numeric", "dash", "slash", "chinese", "native">>

\* entry.parser(input, sourceZone) for the entry with this label
RunParser(label, text, zone, now, native) ==
    CASE label = "now"            -> parseNow(text, now)
      [] label = "ago"            -> parseAgo(text, now)
      [] label = "numeric"        -> parseNumeric(text, zone)
      [] label = "dash"           -> parseDashDate(text, zone)
      [] label = "slash"          -> parseSlashDate(text, zone)
      [] label = "chinese"        -> parseChineseDate(text, zone)
      [] label = "day-month-name" -> parseDayMonthName(text, zone)
      [] label = "month-name"     -> parseMonthNameDate(text, zone)
      [] label = "ansi"           -> parseAnsiStyle(text, zone)
      [] label = "native"         -> parseWithNativeDate(text, zone, native)

NoResult == [status |-> "none", ok |-> FALSE, input |-> <<>>, sourceZone |-> NoZone,
             sourceZoneLabel |-> <<>>, date |-> Null, matchedPattern |-> "",
             error |-> "", errorText |-> <<>>]

ParseSuccess(text, zone, date, label) ==
    [status |-> "returned", ok |-> TRUE, input |-> text, sourceZone |-> zone,
     sourceZoneLabel |-> zoneDisplayName(zone), date |-> date, matchedPattern |-> label,
     error |-> "", errorText |-> <<>>]

\* error is the fixed part of the message, errorText the text appended to it
ParseFailure(text, zone, error, errorText) ==
    [status |-> "returned", ok |-> FALSE, input |-> text, sourceZone |-> zone,
     sourceZoneLabel |-> zoneDisplayName(zone), date |-> Null, matchedPattern |-> "",
     error |-> error, errorText |-> errorText]

EmptyInputError == "empty input: enter a time value, e.g. now or 2019-01-30 21:24:44,gmt-7"

NotFoundError == "Could not find date format for "

\* the labels of the parsers that build their date from civil components
StructuredLabels == {"numeric", "dash", "slash", "chinese", "day-month-name",
                     "month-name", "ansi"}

\* the zones a parser asks a parts formatter for: a parser that returns a
\* date built from components went through toInstantFromComponents; an epoch
\* number, now, ago and the native fallback never do
parserRequests(label, text, zone, parsed) ==
    IF /\ parsed.k = "date"
       /\ label \in StructuredLabels
       /\ label = "numeric" => (Len(text) \in {4, 8, 14} /\ text[1] = "2")
    THEN toInstantRequests(zone)
    ELSE <<>>

\* the zones splitInputAndZone asks a parts formatter for: those of
\* parseZone(right), when there is a comma after the first character
splitInputAndZoneRequests(raw) ==
    LET Right(trimmed, commaIndex) ==
            IF commaIndex <= 1 THEN <<>>
            ELSE parseZoneRequests(SubSeq(trimmed, commaIndex + 1, Len(trimmed)))
        Trimmed(trimmed) == Right(trimmed, LastIndexOf(trimmed, ","))
    IN  Trimmed(Trim(raw))

\* the parts cache of a process that has resolved a zone with parseZone and
\* nothing else: a named zone other than Local was validated through it
CacheAfterResolving(zone) ==
    IF zone.kind = "iana" /\ ~zone.hasLabel
    THEN PartsCacheAfter(EmptyCache, <<zone.name>>)
    ELSE EmptyCache

(***************************************************************************)
(* parseDateInput as a state machine                                       *)
(***************************************************************************)
\* the texts a user types
SampleInputs == {
    \* ""
    <<>>,
    \* "   "
    <<" ", " ", " ">>,
    \* "now"
    <<"n", "o", "w">>,
    \* "NOW "
    <<"N", "O", "W", " ">>,
    \* "nowhere"
    <<"n", "o", "w", "h", "e", "r", "e">>,
    \* "1548854618"
    <<"1", "5", "4", "8", "8", "5", "4", "6", "1", "8">>,
    \* "1548854618000"
    <<"1", "5", "4", "8", "8", "5", "4", "6", "1", "8", "0", "0", "0">>,
    \* "1548854618000000"
    <<"1", "5", "4", "8", "8", "5", "4", "6", "1", "8", "0", "0", "0", "0", "0", "0">>,
    \* "1548854618000000000"
    <<"1", "5", "4", "8", "8", "5", "4", "6", "1", "8", "0", "0", "0", "0", "0", "0", "0", "0", "0">>,
    \* "2019-01-30 21:24:44"
    <<"2", "0", "1", "9", "-", "0", "1", "-", "3", "0", " ", "2", "1", ":", "2", "4", ":", "4", "4">>,
    \* "2019-01-30T21:24:44+08:00"
    <<"2", "0", "1", "9", "-", "0", "1", "-", "3", "0", "T", "2", "1", ":", "2", "4", ":", "4", "4", "+", "0", "8", ":", "0", "0">>,
    \* "2019-01-30 21:24:44,gmt-7"
    <<"2", "0", "1", "9", "-", "0", "1", "-", "3", "0", " ", "2", "1", ":", "2", "4", ":", "4", "4", ",", "g", "m", "t", "-", "7">>,
    \* "2019-01-30 21:24:44,123"
    <<"2", "0", "1", "9", "-", "0", "1", "-", "3", "0", " ", "2", "1", ":", "2", "4", ":", "4", "4", ",", "1", "2", "3">>,
    \* "2019-01-30 21:24:44, Asia/Tokyo"
    <<"2", "0", "1", "9", "-", "0", "1", "-", "3", "0", " ", "2", "1", ":", "2", "4", ":", "4", "4", ",", " ", "A", "s", "i", "a", "/", "T", "o", "k", "y", "o">>,
    \* "2019-01-30 21:24:44,local"
    <<"2", "0", "1", "9", "-", "0", "1", "-", "3", "0", " ", "2", "1", ":", "2", "4", ":", "4", "4", ",", "l", "o", "c", "a", "l">>,
    \* "2019-01-30,utc+24"
    <<"2", "0", "1", "9", "-", "0", "1", "-", "3", "0", ",", "u", "t", "c", "+", "2", "4">>,
    \* ",utc"
    <<",", "u", "t", "c">>,
    \* "2024/01/12 8:30 PM"
    <<"2", "0", "2", "4", "/", "0", "1", "/", "1", "2", " ", "8", ":", "3", "0", " ", "P", "M">>,
    \* "13/1/1"
    <<"1", "3", "/", "1", "/", "1">>,
    \* "20060102150405"
    <<"2", "0", "0", "6", "0", "1", "0", "2", "1", "5", "0", "4", "0", "5">>,
    \* "20060102"
    <<"2", "0", "0", "6", "0", "1", "0", "2">>,
    \* "2006"
    <<"2", "0", "0", "6">>,
    \* "2006-01-02 15:04"
    <<"2", "0", "0", "6", "-", "0", "1", "-", "0", "2", " ", "1", "5", ":", "0", "4">>,
    \* "2006-Jan-02"
    <<"2", "0", "0", "6", "-", "J", "a", "n", "-", "0", "2">>,
    \* "2006-01"
    <<"2", "0", "0", "6", "-", "0", "1">>,
    \* "12 Feb 2006, 19:17"
    <<"1", "2", " ", "F", "e", "b", " ", "2", "0", "0", "6", ",", " ", "1", "9", ":", "1", "7">>,
    \* "May 8, 2009 5:57:51 PM"
    <<"M", "a", "y", " ", "8", ",", " ", "2", "0", "0", "9", " ", "5", ":", "5", "7", ":", "5", "1", " ", "P", "M">>,
    \* "May 8, 2009"
    <<"M", "a", "y", " ", "8", ",", " ", "2", "0", "0", "9">>,
    \* "1 minutes ago"
    <<"1", " ", "m", "i", "n", "u", "t", "e", "s", " ", "a", "g", "o">>,
    \* "2 hours ago"
    <<"2", " ", "h", "o", "u", "r", "s", " ", "a", "g", "o">>,
    \* "1 day ago"
    <<"1", " ", "d", "a", "y", " ", "a", "g", "o">>,
    \* "99999999999 days ago"
    <<"9", "9", "9", "9", "9", "9", "9", "9", "9", "9", "9", " ", "d", "a", "y", "s", " ", "a", "g", "o">>,
    \* "200000000000 minutes ago"
    <<"2", "0", "0", "0", "0", "0", "0", "0", "0", "0", "0", "0", " ", "m", "i", "n", "u", "t", "e", "s", " ", "a", "g", "o">>,
    \* "2019(year)1(month)30(day)"
    <<"2", "0", "1", "9", "u5E74", "1", "u6708", "3", "0", "u65E5">>,
    \* "2019(year)1(month)30(day) 21:24"
    <<"2", "0", "1", "9", "u5E74", "1", "u6708", "3", "0", "u65E5", " ", "2", "1", ":", "2", "4">>,
    \* "Mon Jan 2 15:04:05 2006"
    <<"M", "o", "n", " ", "J", "a", "n", " ", "2", " ", "1", "5", ":", "0", "4", ":", "0", "5", " ", "2", "0", "0", "6">>,
    \* "Jan 2 15:04:05 2006"
    <<"J", "a", "n", " ", "2", " ", "1", "5", ":", "0", "4", ":", "0", "5", " ", "2", "0", "0", "6">>,
    \* "hello"
    <<"h", "e", "l", "l", "o">>,
    \* "2024-02-30"
    <<"2", "0", "2", "4", "-", "0", "2", "-", "3", "0">>,
    \* "2023-13-01"
    <<"2", "0", "2", "3", "-", "1", "3", "-", "0", "1">>,
    \* "-5"
    <<"-", "5">>,
    \* "12:30"
    <<"1", "2", ":", "3", "0">>,
    \* "2019-01-30 21:24:44Z"
    <<"2", "0", "1", "9", "-", "0", "1", "-", "3", "0", " ", "2", "1", ":", "2", "4", ":", "4", "4", "Z">>,
    \* "2019-01-30 25:00:00"
    <<"2", "0", "1", "9", "-", "0", "1", "-", "3", "0", " ", "2", "5", ":", "0", "0", ":", "0", "0">>,
    \* "1/2/2024,+0530"
    <<"1", "/", "2", "/", "2", "0", "2", "4", ",", "+", "0", "5", "3", "0">>,
    \* "31/12/99"
    <<"3", "1", "/", "1", "2", "/", "9", "9">>,
    \* "2019-01-30 21:24:44 UTC"
    <<"2", "0", "1", "9", "-", "0", "1", "-", "3", "0", " ", "2", "1", ":", "2", "4", ":", "4", "4", " ", "U", "T", "C">>,
    \* "99999999999999999"
    <<"9", "9", "9", "9", "9", "9", "9", "9", "9", "9", "9", "9", "9", "9", "9", "9", "9">>,
    \* "2019-1-30t9:05:07.5pm,Etc/GMT+7"
    <<"2", "0", "1", "9", "-", "1", "-", "3", "0", "t", "9", ":", "0", "5", ":", "0", "7", ".", "5", "p", "m", ",", "E", "t", "c", "/", "G", "M", "T", "+", "7">>
    }

\* two-digit text of a number below 100
Two(n) == padStart(NumToText(n), 2)

Four(n) == padStart(NumToText(n), 4)

\* a dash date-time followed by a comma and a fixed-offset zone suffix.
\* c: [year, month, day, hour, minute, second, form, sign, zh, zm]
SuffixText(c) ==
    LET hm == IF c.zm = 0 THEN NumToText(c.zh) ELSE NumToText(c.zh) \o <<":">> \o Two(c.zm)
    IN  CASE c.form = "gmt"  -> <<"g", "m", "t", c.sign>> \o hm
          [] c.form = "UTC"  -> <<"U", "T", "C", " ", c.sign>> \o hm
          [] c.form = "bare" -> <<c.sign>> \o Two(c.zh) \o Two(c.zm)
          \* Etc/GMT names the offset with the sign reversed
          [] c.form = "etc"  -> <<"E", "t", "c", "/", "G", "M", "T">>
                                  \o <<IF c.sign = "+" THEN "-" ELSE "+">> \o NumToText(c.zh)

DateTimeText(c) ==
    Four(c.year) \o <<"-">> \o Two(c.month) \o <<"-">> \o Two(c.day) \o <<" ">>
      \o Two(c.hour) \o <<":">> \o Two(c.minute) \o <<":">> \o Two(c.second)

SuffixedText(c) == DateTimeText(c) \o <<",">> \o SuffixText(c)

MaxSuffixHours == 8

SuffixedCases ==
    {c \in [year : {2019}, month : {1, 12}, day : {30, 31}, hour : {21}, minute : {24},
            second : {44}, form : {"gmt", "UTC", "bare", "etc"}, sign : {"+", "-"},
            zh : {0, 7, MaxSuffixHours}, zm : {0, 30}] :
        c.form = "etc" => c.zm = 0}

\* the samples, the suffixed date-times and two zone-less dates written
\* month first, which no format parser reads: "01-30-1999" and
\* "12-25-1999 10:00"
RawInputs ==
    SampleInputs
      \cup {SuffixedText(c) : c \in SuffixedCases}
      \cup {<<"0", "1", "-", "3", "0", "-", "1", "9", "9", "9">>,
            <<"1", "2", "-", "2", "5", "-", "1", "9", "9", "9", " ", "1", "0", ":", "0", "0">>}

\* the caller's default source zone: the preference resolved by parseZone
DefaultZones == {parseZone(<<"U", "T", "C">>), parseZone(<<"G", "M", "T", "-", "7">>),
                 parseZone(<<"L", "o", "c", "a", "l">>), parseZone(ZoneTokyo)}

\* Date.now() at the call
Clocks == {MkDate(20393, 45296789), MkDate(17926, 48218000)}

\* what Date.parse may answer
NativeOutcomes == {NaNDate, MkDate(17926, 48284000)}

Init ==
    /\ pc = "split"
    /\ rawInput \in RawInputs
    /\ defaultSourceZone \in DefaultZones
    /\ clock \in Clocks
    /\ nativeTimestamp \in NativeOutcomes
    /\ input = <<>>
    /\ sourceZone = NoZone
    /\ state = "none"
    /\ idx = 0
    /\ trace = <<>>
    /\ result = NoResult
    /\ fnArgs = [op |-> "none"]
    /\ fnOut = [op |-> "none"]
    /\ partsFormatterCache = CacheAfterResolving(defaultSourceZone)
    /\ zoneNameFormatterCache = EmptyCache

\* const { input, sourceZone } = splitInputAndZone(rawInput, defaultSourceZone)
Split ==
    /\ pc = "split"
    /\ input' = splitInputAndZone(rawInput, defaultSourceZone).input
    /\ sourceZone' = splitInputAndZone(rawInput, defaultSourceZone).sourceZone
    /\ pc' = "check"
    /\ partsFormatterCache' =
           PartsCacheAfter(partsFormatterCache, splitInputAndZoneRequests(rawInput))
    /\ UNCHANGED <<rawInput, defaultSourceZone, state, idx, trace, result, clock,
                   nativeTimestamp, fnArgs, fnOut,
                   zoneNameFormatterCache>>

\* if (!input) return the empty-input failure
EmptyInput ==
    /\ pc = "check"
    /\ input = <<>>
    /\ result' = ParseFailure(input, sourceZone, EmptyInputError, <<>>)
    /\ pc' = "done"
    /\ UNCHANGED <<rawInput, defaultSourceZone, input, sourceZone, state, idx, trace,
                   clock, nativeTimestamp, fnArgs, fnOut,
                   partsFormatterCache, zoneNameFormatterCache>>

\* const state = detectState(input); const parsers = parserPipeline(state)
Detect ==
    /\ pc = "check"
    /\ input # <<>>
    /\ state' = detectState(input)
    /\ idx' = 1
    /\ pc' = "run"
    /\ UNCHANGED <<rawInput, defaultSourceZone, input, sourceZone, trace, result, clock,
                   nativeTimestamp, fnArgs, fnOut,
                   partsFormatterCache, zoneNameFormatterCache>>

\* a loop that gives up at the first Invalid Date instead of going on
TryParserNaNEndsCall ==
    /\ pc = "run"
    /\ idx <= Len(parserPipeline(state))
    /\ LET label  == parserPipeline(state)[idx]
           parsed == RunParser(label, input, sourceZone, clock, nativeTimestamp)
       IN  /\ trace' = Append(trace, [label |-> label, parsed |-> parsed])
           /\ partsFormatterCache' =
                  PartsCacheAfter(partsFormatterCache,
                                  parserRequests(label, input, sourceZone, parsed))
           /\ IF parsed.k = "null"
              THEN /\ idx' = idx + 1
                   /\ UNCHANGED <<pc, result>>
              ELSE IF parsed.k = "nan"
              THEN /\ result' = ParseFailure(input, sourceZone, NotFoundError, input)
                   /\ pc' = "done"
                   /\ UNCHANGED idx
              ELSE /\ result' = ParseSuccess(input, sourceZone, parsed, label)
                   /\ pc' = "done"
                   /\ UNCHANGED idx
    /\ UNCHANGED <<rawInput, defaultSourceZone, input, sourceZone, state, clock,
                   nativeTimestamp, fnArgs, fnOut,
                   zoneNameFormatterCache>>

\* one turn of the loop over the parsers: continue on null or NaN, else return
TryParser ==
    LET Turn(label, parsed) ==
            /\ trace' = Append(trace, [label |-> label, parsed |-> parsed])
            /\ partsFormatterCache' =
                   PartsCacheAfter(partsFormatterCache,
                                   parserRequests(label, input, sourceZone, parsed))
            /\ IF parsed.k = "null" \/ parsed.k = "nan"
               THEN /\ idx' = idx + 1
                    /\ UNCHANGED <<pc, result>>
               ELSE /\ result' = ParseSuccess(input, sourceZone, parsed, label)
                    /\ pc' = "done"
                    /\ UNCHANGED idx
        Invoke(label) ==
            Turn(label, RunParser(label, input, sourceZone, clock, nativeTimestamp))
    IN  /\ pc = "run"
        /\ idx <= Len(parserPipeline(state))
        /\ Invoke(parserPipeline(state)[idx])
        /\ UNCHANGED <<rawInput, defaultSourceZone, input, sourceZone, state, clock,
                       nativeTimestamp, fnArgs, fnOut,
                       zoneNameFormatterCache>>

\* the loop ended without a return
Exhausted ==
    /\ pc = "run"
    /\ idx > Len(parserPipeline(state))
    /\ result' = ParseFailure(input, sourceZone, NotFoundError, input)
    /\ pc' = "done"
    /\ UNCHANGED <<rawInput, defaultSourceZone, input, sourceZone, state, idx, trace,
                   clock, nativeTimestamp, fnArgs, fnOut,
                   partsFormatterCache, zoneNameFormatterCache>>

Next == Split \/ EmptyInput \/ Detect \/ TryParser \/ Exhausted

Spec == Init /\ [][Next]_vars

\* the character classes of the specification
Contains(text, chars) == \E i \in DOMAIN text : text[i] \in chars

LatinLetters ==
    {"a", "b", "c", "d", "e", "f", "g", "h", "i", "j", "k", "l", "m", "n", "o", "p", "q",
     "r", "s", "t", "u", "v", "w", "x", "y", "z", "A", "B", "C", "D", "E", "F", "G", "H",
     "I", "J", "K", "L", "M", "N", "O", "P", "Q", "R", "S", "T", "U", "V", "W", "X", "Y",
     "Z"}

Digits == {"0", "1", "2", "3", "4", "5", "6", "7", "8", "9"}

Ideographs == {"u5E74", "u6708", "u65E5"}

(***************************************************************************)
(* Claims about parseDateInput, checked under Spec                         *)
(***************************************************************************)
\* the parser order the specification states for each state
StatedOrder(st) ==
    <<"now", "ago">> \o
    (CASE st = "digit"       -> <<"numeric", "native">>
       [] st = "digit-dash"  -> <<"dash", "chinese", "native">>
       [] st = "digit-slash" -> <<"slash", "native">>
       [] st = "digit-alpha" -> <<"chinese", "day-month-name", "native">>
       [] st = "alpha"       -> <<"month-name", "ansi", "native">>
       [] st = "unknown"     -> <<"numeric", "dash", "slash", "chinese", "native">>)

\* what the parser with this label answers to the call's text and zone
Answer(label) == RunParser(label, input, sourceZone, clock, nativeTimestamp)

\* C1: the parsers are invoked in the stated order of the classified state,
\* every one invoked before the last declined or gave NaN, and a Success
\* carries the label and the instant of the first parser of that order that
\* gives a valid instant; nothing is invoked after it.
C1_FirstValidParserWins ==
    (pc = "run" \/ (pc = "done" /\ input # <<>>)) =>
        LET order == StatedOrder(state)
            k     == Len(trace)
        IN  /\ state \in {"digit", "digit-dash", "digit-slash", "digit-alpha", "alpha", "unknown"}
            /\ k <= Len(order)
            /\ \A i \in 1..k : trace[i].label = order[i]
            /\ \A i \in 1..k : (i < k \/ pc = "run") => trace[i].parsed.k # "date"
            /\ (pc = "done" /\ result.ok) =>
                   /\ k >= 1
                   /\ \A i \in 1..(k - 1) : Answer(order[i]).k # "date"
                   /\ Answer(order[k]).k = "date"
                   /\ result.matchedPattern = order[k]
                   /\ result.date = Answer(order[k])
                   /\ result.input = input
                   /\ result.sourceZone = sourceZone

\* a Success of the native fallback after dash and chinese declined
C1_Witness ==
    /\ pc = "done" /\ result.ok
    /\ state = "digit-dash"
    /\ result.matchedPattern = "native"
    /\ Len(trace) = 5

\* C2: the call ends in exactly one outcome; the not-found Failure is
\* returned exactly when the text is not empty and every parser of the
\* state's pipeline declined or gave NaN; no single rejection ends the call
\* while parsers remain.
C2_FailureOnlyOnExhaustion ==
    \* before the return a step is always possible, and the loop's index
    \* counts the parsers tried, so the loop ends
    /\ pc # "done" =>
        /\ result.status = "none"
        /\ pc \in {"split", "check", "run"}
        /\ pc = "run" =>
              (idx \in 1..(Len(StatedOrder(state)) + 1) /\ Len(trace) = idx - 1)
    /\ pc = "done" =>
        LET order     == StatedOrder(state)
            exhausted == /\ input # <<>>
                         /\ \A i \in 1..Len(order) : Answer(order[i]).k # "date"
            notFound  == ~result.ok /\ result.error = NotFoundError
        IN  /\ result.status = "returned"
            /\ result.ok \/ result.error \in {NotFoundError, EmptyInputError}
            /\ notFound <=> exhausted
            /\ notFound => (result.errorText = input /\ Len(trace) = Len(order))
            /\ result.ok => result.date.k = "date"

\* exhaustion after a parser gave an Invalid Date and the rest were still tried
C2_Witness ==
    /\ pc = "done" /\ ~result.ok /\ result.error = NotFoundError
    /\ \E i \in 1..Len(trace) : trace[i].parsed.k = "nan" /\ i < Len(trace)

\* C3: the splitter gives (text before the last comma, resolved zone) exactly
\* when the trimmed input has its last comma past the first character and
\* the trimmed text after it resolves; otherwise the whole trimmed input,
\* comma included, with the default zone.
C3_SuffixSplitsOnlyWhenResolved ==
    pc # "split" =>
        LET trimmed  == Trim(rawInput)
            comma    == LastIndexOf(trimmed, ",")
            suffix   == Trim(SubSeq(trimmed, comma + 1, Len(trimmed)))
            resolves == comma > 1 /\ parseZone(suffix).kind # "none"
        IN  /\ resolves =>
                /\ input = Trim(SubSeq(trimmed, 1, comma - 1))
                /\ sourceZone = parseZone(suffix)
            /\ ~resolves =>
                /\ input = trimmed
                /\ sourceZone = defaultSourceZone
            /\ (input # trimmed \/ sourceZone # defaultSourceZone) => resolves

\* a comma whose suffix does not resolve: nothing of the text is consumed
C3_Witness ==
    /\ pc = "check"
    /\ LastIndexOf(Trim(rawInput), ",") > 1
    /\ input = Trim(rawInput)
    /\ sourceZone = defaultSourceZone

\* a comma whose suffix resolves
C3_WitnessResolved ==
    /\ pc = "check"
    /\ sourceZone.kind = "fixed" /\ sourceZone.offsetMinutes = -420
    /\ defaultSourceZone.kind = "iana"
    /\ Len(input) < Len(Trim(rawInput))

\* the offset in minutes that a suffixed case names
CaseOffset(c) == (IF c.sign = "+" THEN 1 ELSE -1) * (c.zh * 60 + c.zm)

\* "2019-01-30 21:24:44,gmt-7"
ReadmeSuffixed == <<"2", "0", "1", "9", "-", "0", "1", "-", "3", "0", " ", "2", "1", ":", "2", "4", ":", "4", "4", ",", "g", "m", "t", "-", "7">>

\* C4: a dash date-time with a suffix that resolves to a Fixed zone of m
\* minutes parses to the components read as UTC less m minutes, whatever
\* default zone the caller passed.
C4_SuffixOffsetApplied ==
    pc = "done" =>
        /\ \A c \in SuffixedCases :
             rawInput = SuffixedText(c) =>
                /\ result.ok
                /\ result.matchedPattern = "dash"
                /\ result.sourceZone.kind = "fixed"
                /\ result.sourceZone.offsetMinutes = CaseOffset(c)
                /\ result.date =
                     MkDate(DaysFromCivil(c.year, c.month, c.day),
                            ((c.hour * 60 + c.minute) * 60 + c.second) * 1000
                              - CaseOffset(c) * 60000)
        \* 2019-01-31T04:24:44Z
        /\ rawInput = ReadmeSuffixed =>
             (result.ok /\ result.date = [k |-> "date", d |-> 17927, ms |-> 15884000])

\* the README's example, parsed with a named default zone
C4_Witness ==
    /\ pc = "done"
    /\ rawInput = ReadmeSuffixed
    /\ defaultSourceZone.kind = "iana"
    /\ result.ok

\* a text of nothing but white space, the empty text included
IsBlank(text) == \A i \in DOMAIN text : text[i] \in SpaceChars

\* the label the specification shows for a zone: a Fixed zone's label, a
\* Named zone's label when it has one, else its name
StatedLabel(zone) ==
    IF zone.kind = "fixed" \/ zone.hasLabel THEN zone.label ELSE zone.name

\* C12: whenever the text left after splitting is empty, which is exactly
\* when the raw input is empty or white space only, parseDateInput returns
\* the Failure with the empty-input message and the label of the (default)
\* source zone, and no parser was run; this holds for every default zone.
C12_EmptyInputFails ==
    /\ pc \in {"check", "run", "done"} => (input = <<>> <=> IsBlank(rawInput))
    /\ pc = "run" => input # <<>>
    /\ (pc = "done" /\ input = <<>>) =>
           /\ result.status = "returned"
           /\ ~result.ok
           /\ result.error = EmptyInputError
           /\ result.errorText = <<>>
           /\ result.input = <<>>
           /\ result.sourceZone = defaultSourceZone
           /\ result.sourceZoneLabel = StatedLabel(defaultSourceZone)
           /\ trace = <<>>
           /\ state = "none"
    /\ (pc = "done" /\ input # <<>>) => (result.ok \/ result.error # EmptyInputError)

\* the empty-input Failure for a white-space input under a Named default zone
C12_Witness ==
    /\ pc = "done"
    /\ rawInput = <<" ", " ", " ">>
    /\ defaultSourceZone.kind = "iana"
    /\ ~defaultSourceZone.hasLabel
    /\ ~result.ok
    /\ result.error = EmptyInputError
    /\ result.sourceZoneLabel = ZoneTokyo

\* the characters a word is made of
IsWordChar(c) == c \in LatinLetters \cup Digits \cup {"_"}

\* the text holds UTC or GMT as a word of its own, in either case
HasZoneWord(t) ==
    \E i \in 1..(Len(t) - 2) :
        /\ SubSeq(ToLower(t), i, i + 2) \in {<<"u", "t", "c">>, <<"g", "m", "t">>}
        /\ i = 1 \/ ~IsWordChar(t[i - 1])
        /\ i + 3 > Len(t) \/ ~IsWordChar(t[i + 3])

\* the text holds Etc/GMT, a sign and an hour
HasEtcToken(t) ==
    \E i \in 1..(Len(t) - 8) :
        /\ SubSeq(ToLower(t), i, i + 6) = <<"e", "t", "c", "/", "g", "m", "t">>
        /\ t[i + 7] \in {"+", "-"}
        /\ t[i + 8] \in Digits

\* the text holds a slash between two names
HasRegionCity(t) ==
    \E j \in 2..(Len(t) - 1) :
        /\ t[j] = "/"
        /\ t[j - 1] \in LatinLetters \cup {"_"}
        /\ t[j + 1] \in LatinLetters \cup {"_"}

\* the text holds a sign, an hour of two digits up to 23 and a minute of two
\* digits up to 59, with or without a colon between them
HasNumericOffset(t) ==
    LET IsDigitAt(i) == i >= 1 /\ i <= Len(t) /\ t[i] \in Digits
        Field(i) == IsDigitAt(i) /\ IsDigitAt(i + 1)
        Value(i) == NumberOf(SubSeq(t, i, i + 1))
    IN  \E i \in 1..Len(t) :
            /\ t[i] \in {"+", "-"}
            /\ Field(i + 1)
            /\ Value(i + 1) <= 23
            /\ \E m \in {i + 3, i + 4} :
                   /\ m = i + 4 => (i + 3 <= Len(t) /\ t[i + 3] = ":")
                   /\ Field(m)
                   /\ Value(m) <= 59
                   /\ ~IsDigitAt(m + 2)

\* the text ends in a digit and Z
HasTrailingZ(t) == Len(t) >= 2 /\ t[Len(t)] = "Z" /\ t[Len(t) - 1] \in Digits

\* an explicit timezone token, as the specification lists them
HasZoneToken(t) ==
    \/ HasZoneWord(t)
    \/ HasEtcToken(t)
    \/ HasRegionCity(t)
    \/ HasNumericOffset(t)
    \/ HasTrailingZ(t)

\* the zone is the zone of the process, however its name is spelled
IsProcessZone(zone) ==
    zone.kind = "iana" /\ ToLower(zone.name) = ToLower(localTimeZone)

\* C15 as stated: a Success with the native label has a text with an
\* explicit timezone token or the process's zone as source zone; for a text
\* without a token and any other source zone the native parser declines
\* whatever the engine's date parser would answer.
C15_NativeOnlyWithZoneToken ==
    /\ (pc = "done" /\ result.ok /\ result.matchedPattern = "native") =>
           (HasZoneToken(input) \/ IsProcessZone(sourceZone))
    /\ \A i \in DOMAIN trace :
           (/\ trace[i].label = "native"
            /\ ~HasZoneToken(input)
            /\ ~IsProcessZone(sourceZone)) => trace[i].parsed.k = "null"

\* the gate as the code has it: the engine's parser is consulted exactly
\* when one of the patterns of hasExplicitTimeZone matches the text or the
\* source zone is named as the process's zone is
NativeGateAsCoded ==
    \A i \in DOMAIN trace :
        trace[i].label = "native" =>
            LET eligible == \/ hasExplicitTimeZone(input)
                            \/ (sourceZone.kind = "iana" /\ sourceZone.name = localTimeZone)
            IN  trace[i].parsed =
                    (IF eligible /\ nativeTimestamp.k = "date" THEN nativeTimestamp ELSE Null)

\* 01-30-1999 under the default zone UTC: no format parser reads it, the
\* -1999 passes for an offset, and the engine's answer is returned
C15_Witness ==
    /\ pc = "done"
    /\ rawInput = <<"0", "1", "-", "3", "0", "-", "1", "9", "9", "9">>
    /\ sourceZone = FixedZone(0, <<"U", "T", "C">>)
    /\ result.ok
    /\ result.matchedPattern = "native"
    /\ result.date = nativeTimestamp
    /\ ~HasZoneToken(input)
    /\ hasExplicitTimeZone(input)

(***************************************************************************)
(* The format parsers called on their own: SpecParsers                     *)
(***************************************************************************)
MaxMonth == 13

MaxDay == 32

MaxZeros == 19

ParserZones == {parseZone(<<"+", "0", "5", ":", "3", "0">>),
                parseZone(<<"G", "M", "T", "-", "7">>),
                parseZone(<<"L", "o", "c", "a", "l">>)}

YmdYears == {99, 1900, 1999, 2000, 2023, 2024, 2100, 2999}

\* the digits YYYYMMDD for parseNumeric, the text YYYY-M-D for parseDashDate
YmdCall(op, year, month, day, zone) ==
    [op |-> op, kind |-> "ymd", zone |-> zone, year |-> year, month |-> month, day |-> day,
     text |-> IF op = "numeric" THEN Four(year) \o Two(month) \o Two(day)
              ELSE Four(year) \o <<"-">> \o NumToText(month) \o <<"-">> \o NumToText(day)]

RECURSIVE Zeros(_)
Zeros(n) == IF n = 0 THEN <<>> ELSE <<"0">> \o Zeros(n - 1)

EpochBases == {<<"1", "5", "4", "8", "8", "5", "4", "6", "1", "8">>, <<"1", "5", "4", "8", "8", "5", "4", "6", "1", "8", "1", "2", "3">>, <<"1", "5", "4", "8", "8", "5", "4", "6", "1", "8", "1", "2", "3", "4", "5", "6">>, <<"0">>, <<"7">>, <<"9", "9">>, <<"2", "0", "0", "6">>, <<"2", "0", "0", "6", "0", "1", "0", "2">>, <<"8", "6", "4">>, <<"8", "6", "4", "0", "0", "0", "0", "0", "0", "0", "0", "0", "0", "0", "0", "1">>}

\* an all-digit text: lead zeros, a numeral, trailing zeros
EpochCall(base, lead, zeros, zone) ==
    [op |-> "numeric", kind |-> "epoch", zone |-> zone, base |-> base, lead |-> lead,
     zeros |-> zeros, text |-> Zeros(lead) \o base \o Zeros(zeros)]

SlashYearGroups == {<<"2", "0", "2", "4">>, <<"1", "9", "9", "9">>, <<"0", "0", "9", "9">>, <<"1", "2", "3">>, <<"6", "8">>, <<"6", "9">>, <<"0">>, <<"1">>, <<"1", "2">>, <<"1", "3">>, <<"2", "9">>, <<"3", "1">>, <<"9", "9">>}

SlashMiddleGroups == {<<"0">>, <<"1">>, <<"0", "2">>, <<"1", "2">>, <<"1", "3">>, <<"2", "9">>, <<"3", "0">>, <<"3", "1">>}

\* the text A/B/C
SlashCall(a, b, c, zone) ==
    [op |-> "slash", kind |-> "abc", zone |-> zone, a |-> a, b |-> b, c |-> c,
     text |-> a \o <<"/">> \o b \o <<"/">> \o c]

InitParsers ==
    /\ pc = "call"
    /\ \/ \E op \in {"numeric", "dash"}, year \in YmdYears, month \in 0..MaxMonth,
            day \in 0..MaxDay, zone \in ParserZones :
              fnArgs = YmdCall(op, year, month, day, zone)
       \/ \E base \in EpochBases, lead \in {0, 1}, zeros \in 0..MaxZeros, zone \in ParserZones :
              fnArgs = EpochCall(base, lead, zeros, zone)
       \/ \E a \in SlashYearGroups, b \in SlashMiddleGroups, c \in SlashYearGroups,
            zone \in ParserZones :
              fnArgs = SlashCall(a, b, c, zone)
    /\ fnOut = [op |-> "none"]
    /\ rawInput = <<>>
    /\ defaultSourceZone = NoZone
    /\ clock = NaNDate
    /\ nativeTimestamp = NaNDate
    /\ input = <<>>
    /\ sourceZone = NoZone
    /\ state = "none"
    /\ idx = 0
    /\ trace = <<>>
    /\ result = NoResult
    /\ partsFormatterCache = CacheAfterResolving(fnArgs.zone)
    /\ zoneNameFormatterCache = EmptyCache

CallParseNumeric ==
    /\ pc = "call"
    /\ fnArgs.op = "numeric"
    /\ LET Return(date) ==
               /\ fnOut' = [op |-> "numeric", date |-> date]
               /\ partsFormatterCache' =
                      PartsCacheAfter(partsFormatterCache,
                                      parserRequests("numeric", fnArgs.text, fnArgs.zone, date))
       IN  Return(parseNumeric(fnArgs.text, fnArgs.zone))
    /\ pc' = "ret"
    /\ UNCHANGED <<rawInput, defaultSourceZone, input, sourceZone, state, idx, trace,
                   result, clock, nativeTimestamp, fnArgs,
                   zoneNameFormatterCache>>

CallParseDashDate ==
    /\ pc = "call"
    /\ fnArgs.op = "dash"
    /\ LET Return(date) ==
               /\ fnOut' = [op |-> "dash", date |-> date]
               /\ partsFormatterCache' =
                      PartsCacheAfter(partsFormatterCache,
                                      parserRequests("dash", fnArgs.text, fnArgs.zone, date))
       IN  Return(parseDashDate(fnArgs.text, fnArgs.zone))
    /\ pc' = "ret"
    /\ UNCHANGED <<rawInput, defaultSourceZone, input, sourceZone, state, idx, trace,
                   result, clock, nativeTimestamp, fnArgs,
                   zoneNameFormatterCache>>

CallParseSlashDate ==
    /\ pc = "call"
    /\ fnArgs.op = "slash"
    /\ LET Return(date) ==
               /\ fnOut' = [op |-> "slash", date |-> date]
               /\ partsFormatterCache' =
                      PartsCacheAfter(partsFormatterCache,
                                      parserRequests("slash", fnArgs.text, fnArgs.zone, date))
       IN  Return(parseSlashDate(fnArgs.text, fnArgs.zone))
    /\ pc' = "ret"
    /\ UNCHANGED <<rawInput, defaultSourceZone, input, sourceZone, state, idx, trace,
                   result, clock, nativeTimestamp, fnArgs,
                   zoneNameFormatterCache>>

NextParsers == CallParseNumeric \/ CallParseDashDate \/ CallParseSlashDate

SpecParsers == InitParsers /\ [][NextParsers]_vars

(***************************************************************************)
(* Claims about the format parsers, checked under SpecParsers              *)
(***************************************************************************)
IsLeapYear(y) == (y % 4 = 0 /\ y % 100 # 0) \/ y % 400 = 0

DaysInMonth(y, m) ==
    IF m = 2 THEN (IF IsLeapYear(y) THEN 29 ELSE 28)
    ELSE IF m \in {4, 6, 9, 11} THEN 30 ELSE 31

\* (y, m, d) is a date of the calendar that calendar normalization leaves
\* unchanged; a year below 100 does not survive it, Date.UTC reads it as 19yy
IsCalendarDate(y, m, d) ==
    y >= 100 /\ m \in 1..12 /\ d >= 1 /\ d <= DaysInMonth(y, m)

\* the civil fields of an instant in a zone
LocalParts(date, zone) ==
    IF zone.kind = "fixed"
    THEN UtcParts(ShiftMs(date, zone.offsetMinutes * millisecondsInMinute))
    ELSE toDateParts(date, zone.name)

\* date is (y, m, d) at 00:00:00.000 in the zone
IsMidnightOf(date, y, m, d, zone) ==
    /\ date.k = "date"
    /\ date.ms % 1000 = 0
    /\ LocalParts(date, zone) =
         [year |-> y, month |-> m, day |-> d, hour |-> 0, minute |-> 0, second |-> 0]

C5_WitnessDeclined ==
    /\ pc = "ret" /\ fnArgs.kind = "ymd" /\ fnArgs.op = "dash"
    /\ fnArgs.year = 2024 /\ fnArgs.month = 2 /\ fnArgs.day = 30
    /\ fnOut.date = Null

\* the numeral without its last k digits: the integer quotient by 10^k
DropLast(numeral, k) ==
    IF Len(numeral) > k THEN SubSeq(numeral, 1, Len(numeral) - k) ELSE <<"0">>

\* "1548854618" followed by 0, 3, 6 or 9 zeros
IsReadmeEpoch(text) ==
    /\ Len(text) \in {10, 13, 16, 19}
    /\ SubSeq(text, 1, 10) = <<"1", "5", "4", "8", "8", "5", "4", "6", "1", "8">>
    /\ \A i \in 11..Len(text) : text[i] = "0"

\* C6: outside the special forms the digit count alone chooses the unit:
\* more than 16 digits nanoseconds, 14..16 microseconds, 11..13
\* milliseconds, 10 or fewer seconds; a value past 8.64e15 ms is declined;
\* the source zone plays no part.
C6_UnitFromDigitCount ==
    (pc = "ret" /\ fnArgs.kind = "epoch") =>
        LET text    == fnArgs.text
            n       == Len(text)
            special == n \in {14, 8, 4} /\ text[1] = "2"
            value   == StripZeros(text)
            ms      == IF n > 16 THEN DropLast(value, 6)
                       ELSE IF n >= 14 THEN DropLast(value, 3)
                       ELSE IF n >= 11 THEN value
                       ELSE StripZeros(value \o <<"0", "0", "0">>)
        IN  /\ ~special =>
                IF NumeralGreater(ms, maxDateMilliseconds)
                THEN fnOut.date = Null
                ELSE /\ fnOut.date.k = "date"
                     /\ fnOut.date = DateOfNumeral(ms)
            \* 1548854618000 ms = day 17926, 13:23:38
            /\ IsReadmeEpoch(text) =>
                fnOut.date = [k |-> "date", d |-> 17926, ms |-> 48218000]

\* the README's nanosecond example
C6_Witness ==
    /\ pc = "ret" /\ fnArgs.kind = "epoch"
    /\ Len(fnArgs.text) = 19 /\ IsReadmeEpoch(fnArgs.text)
    /\ fnOut.date = [k |-> "date", d |-> 17926, ms |-> 48218000]

\* a value past the Date range, declined
C6_WitnessDeclined ==
    /\ pc = "ret" /\ fnArgs.kind = "epoch"
    /\ Len(fnArgs.text) = 22
    /\ fnOut.date = Null

\* the stated expansion of a two-digit year
StatedExpand(v) == IF v >= 69 THEN 1900 + v ELSE 2000 + v

\* C7: A/B/C is (year A, month B, day C) alone when A has 4 digits, else
\* (year C, month A, day B) alone when C has 4 digits, else, all groups of at
\* most 2 digits, the first calendar-valid of (expand(A), B, C) and
\* (expand(C), A, B); with no valid interpretation the parser declines.
C7_SlashInterpretations ==
    (pc = "ret" /\ fnArgs.kind = "abc") =>
        LET a  == NumberOf(fnArgs.a)
            b  == NumberOf(fnArgs.b)
            c  == NumberOf(fnArgs.c)
            la == Len(fnArgs.a)
            lc == Len(fnArgs.c)
            Only(y, m, d) ==
                IF IsCalendarDate(y, m, d)
                THEN IsMidnightOf(fnOut.date, y, m, d, fnArgs.zone)
                ELSE fnOut.date = Null
        IN  IF la = 4 THEN Only(a, b, c)
            ELSE IF lc = 4 THEN Only(c, a, b)
            ELSE IF la <= 2 /\ Len(fnArgs.b) <= 2 /\ lc <= 2
            THEN IF IsCalendarDate(StatedExpand(a), b, c)
                 THEN IsMidnightOf(fnOut.date, StatedExpand(a), b, c, fnArgs.zone)
                 ELSE Only(StatedExpand(c), a, b)
            ELSE TRUE

\* 13/1/69: neither (2013, 1, 69) nor (1969, 13, 1) is a date
C7_WitnessDeclined ==
    /\ pc = "ret" /\ fnArgs.kind = "abc"
    /\ fnArgs.a = <<"1", "3">> /\ fnArgs.b = <<"1">> /\ fnArgs.c = <<"6", "9">>
    /\ fnOut.date = Null

\* 12/31/69: (2012, 31, 69) is no date, (1969, 12, 31) is
C7_Witness ==
    /\ pc = "ret" /\ fnArgs.kind = "abc"
    /\ fnArgs.a = <<"1", "2">> /\ fnArgs.b = <<"3", "1">> /\ fnArgs.c = <<"6", "9">>
    /\ fnOut.date.k = "date"
    /\ LocalParts(fnOut.date, fnArgs.zone).year = 1969

(***************************************************************************)
(* The zone resolver and the formatter called on their own: SpecZones      *)
(***************************************************************************)
MaxZoneHours == 24

ZoneMinutes == {0, 5, 30, 59, 60, 75}

ZoneForms == {"Etc/GMT+H", "Etc/GMT+HH", "UTC+H", "UTC+H:MM", "gmt + HH:MM", "+HH:MM",
              "+HHMM", "+H"}

\* the forms that carry no minutes
HourOnlyForms == {"Etc/GMT+H", "Etc/GMT+HH", "UTC+H", "+H"}

\* the specifier of a form, with the sign, hours and minutes written in it
ZoneText(form, sign, h, m) ==
    CASE form = "Etc/GMT+H"   -> <<"E", "t", "c", "/", "G", "M", "T", sign>> \o NumToText(h)
      [] form = "Etc/GMT+HH"  -> <<"e", "t", "c", "/", "g", "m", "t", sign>> \o Two(h)
      [] form = "UTC+H"       -> <<"U", "T", "C", sign>> \o NumToText(h)
      [] form = "UTC+H:MM"    -> <<"U", "T", "C", sign>> \o NumToText(h) \o <<":">> \o Two(m)
      [] form = "gmt + HH:MM" -> <<"g", "m", "t", " ", sign, " ">> \o Two(h) \o <<":">> \o Two(m)
      [] form = "+HH:MM"      -> <<sign>> \o Two(h) \o <<":">> \o Two(m)
      [] form = "+HHMM"       -> <<sign>> \o Two(h) \o Two(m)
      [] form = "+H"          -> <<sign>> \o NumToText(h)

ZoneCall(form, sign, h, m) ==
    [op |-> "parseZone", kind |-> "offset", form |-> form, sign |-> sign, h |-> h, m |-> m,
     text |-> ZoneText(form, sign, h, m)]

\* other specifiers: the words, names of the database, and texts that are no zone
OtherZoneTexts == {<<"U", "T", "C">>, <<"g", "m", "t">>, <<"z">>, <<"L", "o", "c", "a", "l">>, <<"A", "s", "i", "a", "/", "T", "o", "k", "y", "o">>, <<"u", "s", "/", "p", "a", "c", "i", "f", "i", "c">>, <<"E", "t", "c", "/", "U", "T", "C">>, <<"M", "a", "r", "s", "/", "B", "a", "s", "e">>, <<"7">>, <<"U", "T", "C", "+", "7", ":", "5">>, <<"+", "1", "2", "3", "4", "5">>, <<" ", "G", "M", "T", "-", "7", " ">>}

FormatZoneTexts == {<<"U", "T", "C">>, <<"G", "M", "T", "-", "7">>, <<"+", "0", "5", ":", "3", "0">>, <<"-", "2", "3", ":", "5", "9">>, <<"+", "2", "3", ":", "5", "9">>, <<"E", "t", "c", "/", "G", "M", "T", "+", "1", "2">>, <<"-", "0", "0", ":", "3", "0">>, <<"A", "s", "i", "a", "/", "T", "o", "k", "y", "o">>, <<"L", "o", "c", "a", "l">>, <<"E", "t", "c", "/", "U", "T", "C">>}

\* instants to format: with and without milliseconds, before the epoch, in
\* summer, and in years of three and of five digits
FormatInstants == {MkDate(17926, 48218000), MkDate(17926, 48218123), MkDate(0, 0),
                   MkDate(-1, 86399000), MkDate(18078, 25200000), MkDate(19782, 86399999),
                   MkDate(DaysFromCivil(999, 6, 15), 43200000),
                   MkDate(DaysFromCivil(10000, 1, 2), 0)}

FormatCall(date, zone) == [op |-> "format", kind |-> "format", date |-> date, zone |-> zone]

InitZones ==
    /\ pc = "call"
    /\ \/ \E form \in ZoneForms, sign \in {"+", "-"}, h \in 0..MaxZoneHours, m \in ZoneMinutes :
              /\ form \in HourOnlyForms => m = 0
              /\ fnArgs = ZoneCall(form, sign, h, m)
       \/ \E text \in OtherZoneTexts :
              fnArgs = [op |-> "parseZone", kind |-> "other", form |-> "", sign |-> "",
                        h |-> 0, m |-> 0, text |-> text]
       \/ \E date \in FormatInstants, text \in FormatZoneTexts :
              fnArgs = FormatCall(date, parseZone(text))
    /\ fnOut = [op |-> "none"]
    /\ rawInput = <<>>
    /\ defaultSourceZone = NoZone
    /\ clock = NaNDate
    /\ nativeTimestamp = NaNDate
    /\ input = <<>>
    /\ sourceZone = NoZone
    /\ state = "none"
    /\ idx = 0
    /\ trace = <<>>
    /\ result = NoResult
    /\ partsFormatterCache = IF fnArgs.op = "format" THEN CacheAfterResolving(fnArgs.zone)
                             ELSE EmptyCache
    /\ zoneNameFormatterCache = EmptyCache

CallParseZone ==
    /\ pc = "call"
    /\ fnArgs.op = "parseZone"
    /\ fnOut' = [op |-> "parseZone", zone |-> parseZone(fnArgs.text)]
    /\ pc' = "ret"
    /\ partsFormatterCache' =
           PartsCacheAfter(partsFormatterCache, parseZoneRequests(fnArgs.text))
    /\ UNCHANGED <<rawInput, defaultSourceZone, input, sourceZone, state, idx, trace,
                   result, clock, nativeTimestamp, fnArgs,
                   zoneNameFormatterCache>>

CallFormatInstant ==
    /\ pc = "call"
    /\ fnArgs.op = "format"
    /\ fnOut' = [op |-> "format", text |-> formatInstantForZone(fnArgs.date, fnArgs.zone),
                 reparsed |-> Null]
    /\ pc' = "formatted"
    /\ partsFormatterCache' =
           PartsCacheAfter(partsFormatterCache, formatInstantPartsRequests(fnArgs.zone))
    /\ zoneNameFormatterCache' =
           ZoneNameCacheAfter(zoneNameFormatterCache,
                              formatInstantZoneNameRequests(fnArgs.zone))
    /\ UNCHANGED <<rawInput, defaultSourceZone, input, sourceZone, state, idx, trace,
                   result, clock, nativeTimestamp, fnArgs>>

\* index of the first space of s at or after position i; Len(s) + 1 without one
RECURSIVE NextSpace(_, _)
NextSpace(s, i) ==
    IF i > Len(s) \/ s[i] = " " THEN i ELSE NextSpace(s, i + 1)

\* the formatted text read back: the zone token is dropped, the offset token
\* is resolved as the source zone and the date-time goes to parseDashDate
CallReparse ==
    /\ pc = "formatted"
    /\ LET Reparsed(dateText, offsetText, offset, reparsed) ==
               /\ fnOut' = [fnOut EXCEPT !.reparsed = reparsed]
               /\ partsFormatterCache' =
                      PartsCacheAfter(partsFormatterCache,
                                      parseZoneRequests(offsetText)
                                        \o parserRequests("dash", dateText, offset, reparsed))
           Resolved(dateText, offsetText, offset) ==
               Reparsed(dateText, offsetText, offset, parseDashDate(dateText, offset))
           Tokens(dateText, offsetText) ==
               Resolved(dateText, offsetText, parseZone(offsetText))
           Spaces(text, sp1, sp2) ==
               Tokens(SubSeq(text, 1, sp1 - 1), SubSeq(text, sp1 + 1, sp2 - 1))
           First(text, sp1) == Spaces(text, sp1, NextSpace(text, sp1 + 1))
       IN  First(fnOut.text, NextSpace(fnOut.text, 1))
    /\ pc' = "ret"
    /\ UNCHANGED <<rawInput, defaultSourceZone, input, sourceZone, state, idx, trace,
                   result, clock, nativeTimestamp, fnArgs,
                   zoneNameFormatterCache>>

NextZones == CallParseZone \/ CallFormatInstant \/ CallReparse

SpecZones == InitZones /\ [][NextZones]_vars

(***************************************************************************)
(* Claims about the zone resolver and the formatter, checked under         *)
(* SpecZones                                                               *)
(***************************************************************************)
\* C8: Etc/GMT+H is -(H*60) minutes and Etc/GMT-H is +(H*60); the UTC/GMT
\* and bare forms are sign*(hours*60+minutes); hours above 23 or minutes
\* above 59 give no Fixed zone; every Fixed zone resolved lies strictly
\* between -1440 and 1440 minutes.
C8_FixedOffsets ==
    (pc = "ret" /\ fnArgs.op = "parseZone") =>
        LET zone == fnOut.zone
            sgn  == IF fnArgs.sign = "+" THEN 1 ELSE -1
        IN  /\ zone.kind = "fixed" => (zone.offsetMinutes > -1440 /\ zone.offsetMinutes < 1440)
            /\ fnArgs.kind = "offset" =>
                 IF fnArgs.h > 23 \/ fnArgs.m > 59 THEN zone.kind # "fixed"
                 ELSE /\ zone.kind = "fixed"
                      /\ zone.offsetMinutes =
                           IF fnArgs.form \in {"Etc/GMT+H", "Etc/GMT+HH"}
                           THEN -(sgn * fnArgs.h * 60)
                           ELSE sgn * (fnArgs.h * 60 + fnArgs.m)

\* Etc/GMT+7 is UTC-07:00
C8_Witness ==
    /\ pc = "ret" /\ fnArgs.op = "parseZone"
    /\ fnArgs.text = <<"E", "t", "c", "/", "G", "M", "T", "+", "7">>
    /\ fnOut.zone.kind = "fixed" /\ fnOut.zone.offsetMinutes = -420

\* 24 hours: no zone
C8_WitnessRejected ==
    /\ pc = "ret" /\ fnArgs.op = "parseZone" /\ fnArgs.kind = "offset"
    /\ fnArgs.h = 24 /\ fnArgs.form = "+HH:MM"
    /\ fnOut.zone.kind = "none"

\* C9 as stated: for every instant and every Fixed zone, the formatted text
\* read back with its offset gives exactly the instant.
C9_AsStated ==
    (pc = "ret" /\ fnArgs.op = "format" /\ fnArgs.zone.kind = "fixed") =>
        fnOut.reparsed = fnArgs.date

\* C9, amended: the text carries whole seconds and the year unpadded, so
\* for a Fixed zone in which the instant's year has four digits the text
\* read back gives the instant without its milliseconds, which is the
\* instant itself when it has none; with a year of another width the text
\* is not read back at all.
C9_RoundTripToTheSecond ==
    (pc = "ret" /\ fnArgs.op = "format" /\ fnArgs.zone.kind = "fixed") =>
        LET date == fnArgs.date
            year == LocalParts(date, fnArgs.zone).year
        IN  IF year >= 1000 /\ year <= 9999
            THEN /\ fnOut.reparsed = [k |-> "date", d |-> date.d, ms |-> date.ms - (date.ms % 1000)]
                 /\ date.ms % 1000 = 0 => fnOut.reparsed = date
            ELSE fnOut.reparsed = Null

\* an instant before the epoch, in a zone west of UTC, read back exactly
C9_Witness ==
    /\ pc = "ret" /\ fnArgs.op = "format"
    /\ fnArgs.zone.kind = "fixed" /\ fnArgs.zone.offsetMinutes = -1439
    /\ fnArgs.date.d = -1
    /\ fnOut.reparsed = fnArgs.date

\* an instant with milliseconds, read back to the second
C9_WitnessTruncated ==
    /\ pc = "ret" /\ fnArgs.op = "format"
    /\ fnArgs.zone.kind = "fixed" /\ fnArgs.zone.offsetMinutes = 330
    /\ fnArgs.date.ms % 1000 = 123
    /\ fnOut.reparsed.k = "date" /\ fnOut.reparsed # fnArgs.date

\* the characters of s from i to j are decimal digits
DigitsAt(s, i, j) == \A x \in i..j : s[x] \in DigitChars

\* the zone's offset in minutes at the instant
OffsetAt(date, zone) ==
    IF zone.kind = "fixed" THEN zone.offsetMinutes ELSE TzOffsetMinutes(date, zone.name)

\* C10: the formatted text is YYYY-MM-DDTHH:MM:SS, a space, the zone's offset
\* at the instant as sign and zero-padded HH:MM, a space, and a zone token.
C10_OutputShape ==
    (pc \in {"formatted", "ret"} /\ fnArgs.op = "format") =>
        LET text == fnOut.text
            off  == OffsetAt(fnArgs.date, fnArgs.zone)
            mag  == IF off >= 0 THEN off ELSE -off
        IN  /\ Len(text) >= 28
            /\ DigitsAt(text, 1, 4) /\ text[5] = "-" /\ DigitsAt(text, 6, 7) /\ text[8] = "-"
            /\ DigitsAt(text, 9, 10) /\ text[11] = "T" /\ DigitsAt(text, 12, 13)
            /\ text[14] = ":" /\ DigitsAt(text, 15, 16) /\ text[17] = ":"
            /\ DigitsAt(text, 18, 19) /\ text[20] = " "
            /\ text[21] = (IF off >= 0 THEN "+" ELSE "-")
            /\ SubSeq(text, 22, 23) = Two(mag \div 60) /\ text[24] = ":"
            /\ SubSeq(text, 25, 26) = Two(mag % 60)
            /\ text[27] = " "
            /\ \A x \in 28..Len(text) : text[x] # " "

\* an instant with milliseconds in Asia/Tokyo, whose offset is +09:00 then, is
\* printed with the offset +08:59
C10_Witness ==
    /\ pc = "formatted" /\ fnArgs.op = "format"
    /\ fnArgs.zone.kind = "iana" /\ fnArgs.zone.name = ZoneTokyo
    /\ fnArgs.date = [k |-> "date", d |-> 17926, ms |-> 48218123]
    /\ OffsetAt(fnArgs.date, fnArgs.zone) = 540
    /\ SubSeq(fnOut.text, 1, 26) =
         <<"2", "0", "1", "9", "-", "0", "1", "-", "3", "0", "T", "2", "2", ":", "2", "3",
           ":", "3", "8", " ", "+", "0", "8", ":", "5", "9">>

(***************************************************************************)
(* parseOutputZones called on its own: SpecOutputZones                     *)
(***************************************************************************)
MaxEntries == 3

\* Array.prototype.join(c)
RECURSIVE JoinWith(_, _)
JoinWith(entries, c) ==
    IF entries = <<>> THEN <<>>
    ELSE IF Len(entries) = 1 THEN Head(entries)
    ELSE Head(entries) \o <<c>> \o JoinWith(Tail(entries), c)

\* the arguments of a call: the outputZones preference is undefined or a
\* list of up to MaxEntries entries joined by commas. The entries are words,
\* offsets that share a key, names of the database in two spellings, the
\* process's own zone by name, an unknown name and blank entries
InitOutputZones ==
    /\ pc = "call"
    /\ LET OutputEntries ==
               {<<"U", "T", "C">>, <<"+", "0", "0", ":", "0", "0">>,
                <<"U", "T", "C", "+", "8">>, <<"+", "0", "8", ":", "0", "0">>,
                ZoneTokyo, ToLower(ZoneTokyo), ZonePacific,
                <<"L", "o", "c", "a", "l">>, <<"M", "a", "r", "s", "/", "B", "a", "s", "e">>,
                <<>>, <<" ", "g", "m", "t", " ">>}
       IN  \E listed \in BOOLEAN, includeLocal \in BOOLEAN,
              entries \in UNION {[1..n -> OutputEntries] : n \in 0..MaxEntries} :
                /\ ~listed => entries = <<>>
                /\ fnArgs = [op |-> "parseOutputZones", listed |-> listed,
                             entries |-> entries,
                             rawList |-> IF listed THEN JoinWith(entries, ",")
                                         ELSE UndefinedText,
                             includeLocal |-> includeLocal]
    /\ fnOut = [op |-> "none"]
    /\ rawInput = <<>>
    /\ defaultSourceZone = NoZone
    /\ clock = NaNDate
    /\ nativeTimestamp = NaNDate
    /\ input = <<>>
    /\ sourceZone = NoZone
    /\ state = "none"
    /\ idx = 0
    /\ trace = <<>>
    /\ result = NoResult
    /\ partsFormatterCache = EmptyCache
    /\ zoneNameFormatterCache = EmptyCache

CallParseOutputZones ==
    /\ pc = "call"
    /\ fnArgs.op = "parseOutputZones"
    /\ fnOut' = [op |-> "parseOutputZones",
                 zones |-> parseOutputZones(fnArgs.rawList, fnArgs.includeLocal)]
    /\ pc' = "ret"
    /\ partsFormatterCache' =
           PartsCacheAfter(partsFormatterCache, parseOutputZonesRequests(fnArgs.rawList))
    /\ UNCHANGED <<rawInput, defaultSourceZone, input, sourceZone, state, idx, trace,
                   result, clock, nativeTimestamp, fnArgs, zoneNameFormatterCache>>

NextOutputZones == CallParseOutputZones

SpecOutputZones == InitOutputZones /\ [][NextOutputZones]_vars

(***************************************************************************)
(* Claims about parseOutputZones, checked under SpecOutputZones            *)
(***************************************************************************)
\* the identity the specification gives a zone: the offset minutes of a
\* Fixed zone, the name of a Named zone
SameIdentity(a, b) ==
    /\ a.kind = b.kind
    /\ IF a.kind = "fixed" THEN a.offsetMinutes = b.offsetMinutes ELSE a.name = b.name

\* the zone specifiers of a call in the order they are resolved: Local when
\* the flag is set, then the listed entries
Candidates(args) ==
    (IF args.includeLocal THEN <<<<"L", "o", "c", "a", "l">>>> ELSE <<>>) \o args.entries

\* the zones the candidates resolve to, unresolvable ones left out
ResolvedCandidates(args) ==
    LET Each(cands) ==
            SelectSeq([i \in DOMAIN cands |-> parseZone(cands[i])],
                      LAMBDA zone : zone.kind # "none")
    IN  Each(Candidates(args))

\* the positions of a list of zones at which an identity occurs first
FirstOccurrences(zones) ==
    {j \in DOMAIN zones : \A i \in 1..(j - 1) : ~SameIdentity(zones[i], zones[j])}

\* C11: parseOutputZones returns a non-empty list in which no two entries
\* share a zone identity (offset minutes for Fixed, name for Named); the
\* entries are the resolvable specifiers in order of first occurrence, the
\* local zone first when the flag is set, unresolvable specifiers skipped;
\* the list is exactly [UTC] when nothing else was accepted.
C11_OutputZonesUnique ==
    LET Holds(zones, resolved, firsts) ==
            /\ Len(zones) >= 1
            /\ \A i, k \in DOMAIN zones : i # k => ~SameIdentity(zones[i], zones[k])
            /\ IF resolved = <<>>
               THEN zones = <<FixedZone(0, <<"U", "T", "C">>)>>
               ELSE /\ Len(zones) = Cardinality(firsts)
                    /\ \A i \in DOMAIN zones :
                         \E j \in firsts :
                            /\ Cardinality({m \in firsts : m < j}) = i - 1
                            /\ zones[i] = resolved[j]
            /\ fnArgs.includeLocal =>
                   zones[1] = IanaZone(localTimeZone, <<"L", "o", "c", "a", "l">>, TRUE)
        Against(zones, resolved) == Holds(zones, resolved, FirstOccurrences(resolved))
    IN  (pc = "ret" /\ fnOut.op = "parseOutputZones") =>
            Against(fnOut.zones, ResolvedCandidates(fnArgs))

\* a call in which a repeated identity was dropped and an unknown name skipped
C11_Witness ==
    /\ pc = "ret"
    /\ fnOut.op = "parseOutputZones"
    /\ fnArgs.includeLocal
    /\ Len(fnOut.zones) = 2
    /\ Len(ResolvedCandidates(fnArgs)) = 3
    /\ \E i \in DOMAIN fnArgs.entries :
           fnArgs.entries[i] = <<"M", "a", "r", "s", "/", "B", "a", "s", "e">>

\* a call without the local zone in which no entry resolved: exactly [UTC]
C11_WitnessFallback ==
    /\ pc = "ret"
    /\ fnOut.op = "parseOutputZones"
    /\ ~fnArgs.includeLocal
    /\ Len(fnArgs.entries) = MaxEntries
    /\ fnOut.zones = <<FixedZone(0, <<"U", "T", "C">>)>>
    /\ ResolvedCandidates(fnArgs) = <<>>

(***************************************************************************)
(* toInstantFromComponents called on its own: SpecInstants                 *)
(***************************************************************************)
MaxHour == 23

\* the arguments of a call. The civil days lie around the two transitions of
\* US/Pacific in 2019: daylight time begins on March 10 and ends on
\* November 3. The millisecond field is none, a fraction as in 21:24:44.123,
\* a half and the last millisecond of a second. The zones are the process's
\* zone, a named zone without daylight time and a fixed offset
InitInstants ==
    /\ pc = "call"
    /\ \E on \in {<<3, 9>>, <<3, 10>>, <<3, 11>>, <<11, 2>>, <<11, 3>>, <<11, 4>>},
          hour \in 0..MaxHour, minute \in {0, 30}, second \in {0, 59},
          millisecond \in {0, 123, 500, 999},
          zone \in {parseZone(<<"L", "o", "c", "a", "l">>), parseZone(ZoneTokyo),
                    parseZone(<<"G", "M", "T", "-", "7">>)} :
            fnArgs = [op |-> "toInstant",
                      components |-> Components(2019, on[1], on[2], hour, minute, second,
                                                millisecond),
                      zone |-> zone]
    /\ fnOut = [op |-> "none"]
    /\ rawInput = <<>>
    /\ defaultSourceZone = NoZone
    /\ clock = NaNDate
    /\ nativeTimestamp = NaNDate
    /\ input = <<>>
    /\ sourceZone = NoZone
    /\ state = "none"
    /\ idx = 0
    /\ trace = <<>>
    /\ result = NoResult
    /\ partsFormatterCache = CacheAfterResolving(fnArgs.zone)
    /\ zoneNameFormatterCache = EmptyCache

CallToInstant ==
    /\ pc = "call"
    /\ fnArgs.op = "toInstant"
    /\ fnOut' = [op |-> "toInstant",
                 date |-> toInstantFromComponents(fnArgs.components, fnArgs.zone)]
    /\ pc' = "ret"
    /\ partsFormatterCache' =
           PartsCacheAfter(partsFormatterCache, toInstantRequests(fnArgs.zone))
    /\ UNCHANGED <<rawInput, defaultSourceZone, input, sourceZone, state, idx, trace,
                   result, clock, nativeTimestamp, fnArgs, zoneNameFormatterCache>>

NextInstants == CallToInstant

SpecInstants == InitInstants /\ [][NextInstants]_vars

(***************************************************************************)
(* Claims about toInstantFromComponents, checked under SpecInstants        *)
(***************************************************************************)
\* the fields of a civil date-time down to the second
CivilSeconds(c) ==
    [year |-> c.year, month |-> c.month, day |-> c.day,
     hour |-> c.hour, minute |-> c.minute, second |-> c.second]

\* the offsets, in minutes, a zone of the database ever has
ZoneOffsets == {540, 0, -420, -480}

\* the instants whose civil decomposition in the zone is the civil date-time:
\* none inside a skipped gap, two inside a repeated overlap, else one
InstantsOf(c, zone) ==
    LET Reads(t) ==
            /\ t.k = "date"
            /\ LocalParts(t, zone) = CivilSeconds(c)
            /\ t.ms % 1000 = c.millisecond
        AsUtc(guess) ==
            {t \in {ShiftMs(guess, -(off * millisecondsInMinute)) : off \in ZoneOffsets} :
                 Reads(t)}
    IN  AsUtc(DateUTC(c.year, c.month, c.day, c.hour, c.minute, c.second, c.millisecond))

ExistsOnce(c, zone) == Cardinality(InstantsOf(c, zone)) = 1

\* C13 as stated: for a Named zone and every civil date-time that exists
\* exactly once in it, the two-pass correction returns the instant whose
\* civil decomposition in the zone (year to second) equals the components.
C13_TwoPassExact ==
    (/\ pc = "ret"
     /\ fnOut.op = "toInstant"
     /\ fnArgs.zone.kind = "iana"
     /\ ExistsOnce(fnArgs.components, fnArgs.zone)) =>
        /\ fnOut.date.k = "date"
        /\ LocalParts(fnOut.date, fnArgs.zone) = CivilSeconds(fnArgs.components)

\* the two-pass correction on civil date-times of whole seconds: the
\* instant returned is the one instant that reads as the components
TwoPassExactOnWholeSeconds ==
    (/\ pc = "ret"
     /\ fnOut.op = "toInstant"
     /\ fnArgs.components.millisecond = 0
     /\ ExistsOnce(fnArgs.components, fnArgs.zone)) =>
        fnOut.date \in InstantsOf(fnArgs.components, fnArgs.zone)

\* 2019-03-09 00:00:00.999 of US/Pacific, a civil time that exists once far
\* from any transition, comes back as an instant that reads 00:00:01
C13_Witness ==
    /\ pc = "ret"
    /\ fnOut.op = "toInstant"
    /\ fnArgs.zone.kind = "iana"
    /\ fnArgs.zone.name = ZonePacific
    /\ fnArgs.components = Components(2019, 3, 9, 0, 0, 0, 999)
    /\ ExistsOnce(fnArgs.components, fnArgs.zone)
    /\ fnOut.date = ShiftMs(DateUTC(2019, 3, 9, 8, 0, 0, 999), 998)
    /\ LocalParts(fnOut.date, fnArgs.zone).second = 1

\* a whole-second civil time just after daylight time begins, whose UTC
\* guess lies before the transition: the second offset is used
C13_WitnessAcrossTransition ==
    /\ pc = "ret"
    /\ fnOut.op = "toInstant"
    /\ fnArgs.zone.name = ZonePacific
    /\ fnArgs.components = Components(2019, 3, 10, 3, 30, 0, 0)
    /\ fnOut.date = DateUTC(2019, 3, 10, 10, 30, 0, 0)

(***************************************************************************)
(* detectState called on its own: SpecClassify                             *)
(***************************************************************************)
MaxTextLen == 3

\* the classified texts: the samples, and every text of up to MaxTextLen
\* characters out of digits, the two separators, Latin letters of both
\* cases, an ideograph, a kana (neither a Latin letter nor in
\* U+4E00..U+9FFF), white space and a colon
InitClassify ==
    /\ pc = "call"
    /\ LET ClassifyChars == {"1", "9", "-", "/", "a", "Z", "u5E74", "u3042", " ", ":"}
       IN  \E text \in UNION {[1..n -> ClassifyChars] : n \in 0..MaxTextLen}
                          \cup SampleInputs :
               fnArgs = [op |-> "detectState", text |-> text]
    /\ fnOut = [op |-> "none"]
    /\ rawInput = <<>>
    /\ defaultSourceZone = NoZone
    /\ clock = NaNDate
    /\ nativeTimestamp = NaNDate
    /\ input = <<>>
    /\ sourceZone = NoZone
    /\ state = "none"
    /\ idx = 0
    /\ trace = <<>>
    /\ result = NoResult
    /\ partsFormatterCache = EmptyCache
    /\ zoneNameFormatterCache = EmptyCache

CallDetectState ==
    /\ pc = "call"
    /\ fnArgs.op = "detectState"
    /\ fnOut' = [op |-> "detectState", state |-> detectState(fnArgs.text)]
    /\ pc' = "ret"
    /\ UNCHANGED <<rawInput, defaultSourceZone, input, sourceZone, state, idx, trace,
                   result, clock, nativeTimestamp, fnArgs, partsFormatterCache,
                   zoneNameFormatterCache>>

NextClassify == CallDetectState

SpecClassify == InitClassify /\ [][NextClassify]_vars

(***************************************************************************)
(* Claims about detectState, checked under SpecClassify                    *)
(***************************************************************************)
\* the rules of the specification, in its order, on a trimmed text
StatedClass(t) ==
    IF t = <<>> THEN "unknown"
    ELSE IF t[1] \in Digits THEN
        IF \A i \in DOMAIN t : t[i] \in Digits THEN "digit"
        ELSE IF Contains(t, {"-"}) THEN "digit-dash"
        ELSE IF Contains(t, {"/"}) THEN "digit-slash"
        ELSE IF Contains(t, LatinLetters \cup Ideographs) THEN "digit-alpha"
        ELSE "digit"
    ELSE IF t[1] \in LatinLetters THEN "alpha"
    ELSE "unknown"

\* C14: classify is a total function of the trimmed text that applies the
\* stated rules in order; for a text that starts with a digit '-' takes
\* precedence over '/' and both take precedence over letters.
C14_ClassifyRules ==
    LET Rules(t, class) ==
            /\ class \in {"unknown", "digit", "digit-dash", "digit-slash", "digit-alpha",
                          "alpha"}
            /\ class = StatedClass(t)
            /\ (t # <<>> /\ t[1] \in Digits) =>
                   /\ Contains(t, {"-"}) => class = "digit-dash"
                   /\ (Contains(t, {"/"}) /\ ~Contains(t, {"-"})) => class = "digit-slash"
    IN  (pc = "ret" /\ fnOut.op = "detectState") => Rules(Trim(fnArgs.text), fnOut.state)

\* a text with a digit first, then '/' and '-': classified by the '-'
C14_Witness ==
    /\ pc = "ret"
    /\ fnOut.op = "detectState"
    /\ fnArgs.text = <<"1", "/", "-">>
    /\ fnOut.state = "digit-dash"

\* a text with a digit first, a letter and then '/': classified by the '/'
C14_WitnessSlash ==
    /\ pc = "ret"
    /\ fnOut.op = "detectState"
    /\ fnArgs.text = <<"1", "a", "/">>
    /\ fnOut.state = "digit-slash"

\* a digit followed by a character that is no letter, ideograph or
\* separator: the fallback to Digit
C14_WitnessFallback ==
    /\ pc = "ret"
    /\ fnOut.op = "detectState"
    /\ fnArgs.text = <<" ", "1", "u3042">>
    /\ fnOut.state = "digit"

(***************************************************************************)
(* A session of the process: zone resolutions, instant conversions and     *)
(* formatting calls against the two module-level caches: SpecSession       *)
(***************************************************************************)
MaxCalls == 3

\* the requests a call makes of one cache, as they are answered in turn:
\* the zone asked for, the handle returned and the entries of the cache
\* after the request
RECURSIVE RequestLog(_, _, _)
RequestLog(cache, kind, timeZones) ==
    LET Answered(r) ==
            <<[cache |-> kind, timeZone |-> Head(timeZones), formatter |-> r.formatter,
               entries |-> Cardinality(DOMAIN r.cache)]>>
              \o RequestLog(r.cache, kind, Tail(timeZones))
    IN  IF timeZones = <<>> THEN <<>>
        ELSE Answered(IF kind = "parts"
                      THEN formatterForParts(cache, Head(timeZones))
                      ELSE formatterForZoneName(cache, Head(timeZones)))

\* the process after start-up: nothing requested yet, the default source
\* zone is Local
InitSession ==
    /\ pc = "session"
    /\ idx = 0
    /\ trace = <<>>
    /\ sourceZone = parseZone(<<"L", "o", "c", "a", "l">>)
    /\ partsFormatterCache = EmptyCache
    /\ zoneNameFormatterCache = EmptyCache
    /\ fnArgs = [op |-> "none"]
    /\ fnOut = [op |-> "none"]
    /\ rawInput = <<>>
    /\ defaultSourceZone = NoZone
    /\ clock = NaNDate
    /\ nativeTimestamp = NaNDate
    /\ input = <<>>
    /\ state = "none"
    /\ result = NoResult

\* parseZone(text); a resolved zone becomes the zone the session works with.
\* The texts are a database name in two spellings, another name, the
\* process's zone, an offset and an unknown name
SessionParseZone ==
    /\ pc = "session"
    /\ idx < MaxCalls
    /\ \E text \in {ZoneTokyo, ToLower(ZoneTokyo), ZoneEtcUtc,
                    <<"L", "o", "c", "a", "l">>, <<"U", "T", "C", "+", "8">>,
                    <<"M", "a", "r", "s", "/", "B", "a", "s", "e">>} :
           LET Resolved(zone) ==
                   /\ fnArgs' = [op |-> "parseZone", text |-> text]
                   /\ fnOut' = [op |-> "parseZone", zone |-> zone]
                   /\ sourceZone' = IF zone.kind = "none" THEN sourceZone ELSE zone
           IN  /\ Resolved(parseZone(text))
               /\ partsFormatterCache' =
                      PartsCacheAfter(partsFormatterCache, parseZoneRequests(text))
               /\ trace' = trace \o RequestLog(partsFormatterCache, "parts",
                                               parseZoneRequests(text))
    /\ idx' = idx + 1
    /\ UNCHANGED <<pc, rawInput, defaultSourceZone, input, state, result, clock,
                   nativeTimestamp, zoneNameFormatterCache>>

\* parseOutputZones(rawList, true), for an undefined preference, a list with
\* a repeated name and a list with an unknown name
SessionParseOutputZones ==
    /\ pc = "session"
    /\ idx < MaxCalls
    /\ \E rawList \in
           {UndefinedText,
            JoinWith(<<ZoneTokyo, <<"U", "T", "C">>, ZoneTokyo>>, ","),
            JoinWith(<<ZonePacific, <<"M", "a", "r", "s", "/", "B", "a", "s", "e">>>>, ",")} :
           /\ fnArgs' = [op |-> "parseOutputZones", rawList |-> rawList]
           /\ fnOut' = [op |-> "parseOutputZones", zones |-> parseOutputZones(rawList, TRUE)]
           /\ partsFormatterCache' =
                  PartsCacheAfter(partsFormatterCache, parseOutputZonesRequests(rawList))
           /\ trace' = trace \o RequestLog(partsFormatterCache, "parts",
                                           parseOutputZonesRequests(rawList))
    /\ idx' = idx + 1
    /\ UNCHANGED <<pc, rawInput, defaultSourceZone, input, sourceZone, state, result,
                   clock, nativeTimestamp, zoneNameFormatterCache>>

\* toInstantFromComponents(components, zone) for the session's zone
SessionToInstant ==
    /\ pc = "session"
    /\ idx < MaxCalls
    /\ \E components \in {Components(2019, 1, 30, 21, 24, 44, 0)} :
           /\ fnArgs' = [op |-> "toInstant", components |-> components, zone |-> sourceZone]
           /\ fnOut' = [op |-> "toInstant",
                        date |-> toInstantFromComponents(components, sourceZone)]
    /\ partsFormatterCache' =
           PartsCacheAfter(partsFormatterCache, toInstantRequests(sourceZone))
    /\ trace' = trace \o RequestLog(partsFormatterCache, "parts",
                                    toInstantRequests(sourceZone))
    /\ idx' = idx + 1
    /\ UNCHANGED <<pc, rawInput, defaultSourceZone, input, sourceZone, state, result,
                   clock, nativeTimestamp, zoneNameFormatterCache>>

\* formatInstantForZone(date, zone) for the session's zone
SessionFormatInstant ==
    /\ pc = "session"
    /\ idx < MaxCalls
    /\ \E date \in {MkDate(17926, 48284000)} :
           /\ fnArgs' = [op |-> "format", date |-> date, zone |-> sourceZone]
           /\ fnOut' = [op |-> "format", text |-> formatInstantForZone(date, sourceZone)]
    /\ partsFormatterCache' =
           PartsCacheAfter(partsFormatterCache, formatInstantPartsRequests(sourceZone))
    /\ zoneNameFormatterCache' =
           ZoneNameCacheAfter(zoneNameFormatterCache,
                              formatInstantZoneNameRequests(sourceZone))
    /\ trace' = trace
                  \o RequestLog(partsFormatterCache, "parts",
                                formatInstantPartsRequests(sourceZone))
                  \o RequestLog(zoneNameFormatterCache, "zone",
                                formatInstantZoneNameRequests(sourceZone))
    /\ idx' = idx + 1
    /\ UNCHANGED <<pc, rawInput, defaultSourceZone, input, sourceZone, state, result,
                   clock, nativeTimestamp>>

NextSession ==
    \/ SessionParseZone
    \/ SessionParseOutputZones
    \/ SessionToInstant
    \/ SessionFormatInstant

SpecSession == InitSession /\ [][NextSession]_vars

(***************************************************************************)
(* Claims about the formatter caches, checked under SpecSession            *)
(***************************************************************************)
\* every key of the cache is still mapped, and to the same handle, after a step
Kept(cache, after) ==
    \A key \in DOMAIN cache : key \in DOMAIN after /\ after[key] = cache[key]

\* the distinct zone strings requested of a cache so far
Requested(kind) == {trace[i].timeZone : i \in {j \in DOMAIN trace : trace[j].cache = kind}}

\* the entries of a cache before the i-th request of the log; a cache of
\* the other kind may have been asked in between
EntriesBefore(i) ==
    LET Earlier == {j \in 1..(i - 1) : trace[j].cache = trace[i].cache}
    IN  IF Earlier = {} THEN 0
        ELSE trace[CHOOSE j \in Earlier : \A k \in Earlier : k <= j].entries

\* a later request for a zone string that was answered with a handle
\* returns that handle and inserts nothing, and neither cache has more
\* entries than distinct zone strings were requested of it
CachedHandleReturned ==
    /\ \A i, j \in DOMAIN trace :
           (/\ i < j
            /\ trace[i].cache = trace[j].cache
            /\ trace[i].timeZone = trace[j].timeZone
            /\ trace[i].formatter # RangeError) =>
               /\ trace[j].formatter = trace[i].formatter
               /\ trace[j].entries = EntriesBefore(j)
    /\ Cardinality(DOMAIN partsFormatterCache) <= Cardinality(Requested("parts"))
    /\ Cardinality(DOMAIN zoneNameFormatterCache) <= Cardinality(Requested("zone"))

\* C16: across any sequence of zone resolutions, instant conversions and
\* formatting calls the formatter caches only grow: no key is removed or
\* mapped to another handle by any step, a second request for the same zone
\* string returns the cached handle without inserting, and the number of
\* entries never exceeds the number of distinct zone strings requested.
C16_CachesOnlyGrow ==
    /\ []CachedHandleReturned
    /\ [][/\ Kept(partsFormatterCache, partsFormatterCache')
          /\ Kept(zoneNameFormatterCache, zoneNameFormatterCache')]_vars

\* a session in which one zone was asked of the parts cache three times and
\* an unknown zone once: two entries less than requests, one handle
C16_Witness ==
    /\ pc = "session"
    /\ Cardinality(DOMAIN partsFormatterCache) = 1
    /\ Cardinality(Requested("parts")) = 2
    /\ \E i, j \in DOMAIN trace :
           /\ i < j
           /\ trace[i].cache = "parts"
           /\ trace[j].cache = "parts"
           /\ trace[i].timeZone = trace[j].timeZone
           /\ trace[i].formatter # RangeError
           /\ trace[j].formatter = trace[i].formatter
    /\ \E i \in DOMAIN trace : trace[i].formatter = RangeError
    /\ Cardinality(DOMAIN zoneNameFormatterCache) = 1

(***************************************************************************)
(* parseDateInput on texts at and around what the format parsers accept:   *)
(* SpecDispatch                                                            *)
(***************************************************************************)
\* the raw inputs are the samples and every text one edit away from one of
\* them: one character dropped, or replaced by one of the two separators the
\* classifier looks for, a letter, a digit or a space. The default source
\* zones are a fixed and a named one
InitDispatch ==
    /\ pc = "split"
    /\ LET EditChars == {"-", "/", "a", "1", " "}
           ReplaceAt(s, i, c) == SubSeq(s, 1, i - 1) \o <<c>> \o SubSeq(s, i + 1, Len(s))
           DropAt(s, i) == SubSeq(s, 1, i - 1) \o SubSeq(s, i + 1, Len(s))
       IN  rawInput \in
               SampleInputs
                 \cup UNION {{ReplaceAt(s, i, c) : i \in DOMAIN s, c \in EditChars} :
                                 s \in SampleInputs}
                 \cup UNION {{DropAt(s, i) : i \in DOMAIN s} : s \in SampleInputs}
    /\ defaultSourceZone \in {parseZone(<<"U", "T", "C">>),
                              parseZone(<<"L", "o", "c", "a", "l">>)}
    /\ clock = MkDate(20393, 45296789)
    /\ nativeTimestamp = NaNDate
    /\ input = <<>>
    /\ sourceZone = NoZone
    /\ state = "none"
    /\ idx = 0
    /\ trace = <<>>
    /\ result = NoResult
    /\ fnArgs = [op |-> "none"]
    /\ fnOut = [op |-> "none"]
    /\ partsFormatterCache = CacheAfterResolving(defaultSourceZone)
    /\ zoneNameFormatterCache = EmptyCache

NextDispatch == Split \/ EmptyInput \/ Detect \/ TryParser \/ Exhausted

SpecDispatch == InitDispatch /\ [][NextDispatch]_vars

(***************************************************************************)
(* Claims about the dispatch, checked under SpecDispatch                   *)
(***************************************************************************)
\* the structured parsers that accept the call's text: those that give a
\* valid instant for it
Accepting == {label \in StructuredLabels : Answer(label).k = "date"}

\* C17: dispatch loses no match. Every structured parser that accepts the
\* text is in the pipeline of the state the text was classified to, so the
\* call succeeds through a structured parser exactly when one of the seven
\* accepts the text, with that parser's label and instant.
C17_DispatchLosesNoMatch ==
    LET Listed(order, label) == \E i \in DOMAIN order : order[i] = label
        Holds(accepting) ==
            /\ pc \in {"run", "done"} /\ state # "none" =>
                   \A label \in accepting : Listed(StatedOrder(state), label)
            /\ (pc = "done" /\ input # <<>>) =>
                   /\ accepting # {} =>
                          /\ result.ok
                          /\ result.matchedPattern \in accepting
                          /\ result.date = Answer(result.matchedPattern)
                   /\ accepting = {} =>
                          (~result.ok \/ result.matchedPattern \notin StructuredLabels)
    IN  Holds(Accepting)

\* a Chinese date, accepted by the chinese parser only, classified
\* DigitAlpha and returned by that parser
C17_Witness ==
    /\ pc = "done"
    /\ state = "digit-alpha"
    /\ Accepting = {"chinese"}
    /\ result.ok
    /\ result.matchedPattern = "chinese"

\* an edited sample that no structured parser accepts ends in Failure
C17_WitnessNone ==
    /\ pc = "done"
    /\ rawInput \notin SampleInputs
    /\ state = "digit-dash"
    /\ Accepting = {}
    /\ ~result.ok
    /\ result.error = NotFoundError

====
